---- MODULE Spec2Model ----
(***************************************************************************)
(* A model of the Steina execution core of scratch-vm: the cooperative     *)
(* thread sequencer (Sequencer.stepThreads / stepThread), the video and    *)
(* audio play queues (runtime.videoState.playing, runtime.audioState       *)
(* .playing) and the media-block primitives of SteinaBlocks that fill      *)
(* them.                                                                   *)
(*                                                                         *)
(* One call of stepThreads is modelled by the positions of its control     *)
(* flow (pc): the outer while test, the for loop over runtime.threads, one *)
(* iteration of stepThread's loop per executed block, and the tail of the  *)
(* call (filtering of done threads, video and audio advancement).  Nothing *)
(* else runs between these positions: the host's events (a new thread, a   *)
(* PROJECT_STOP_ALL broadcast) happen while pc = "idle".                   *)
(***************************************************************************)
EXTENDS Integers, Sequences, FiniteSets, TLC

(***************************************************************************)
(* Bounds of the model.                                                    *)
(***************************************************************************)
\* blocks of all the scripts of one behaviour
MaxBlocks == 3
\* calls of stepThreads in one behaviour
MaxTicks == 3
\* the layering operations move a target by up to MaxLayers layers, either way
MaxLayers == 3

(***************************************************************************)
(* Program constants.                                                      *)
(***************************************************************************)
\* AudioTarget.MAX_SIMULTANEOUS_NONBLOCKING_SOUNDS
MAX_SIMULTANEOUS_NONBLOCKING_SOUNDS == 25
\* Sequencer.WARP_TIME (ms)
WARP_TIME == 500
\* COMPASS_THRESHOLD (degrees)
COMPASS_THRESHOLD == 20

\* Thread.STATUS_*
STATUS_RUNNING == "RUNNING"
STATUS_PROMISE_WAIT == "PROMISE_WAIT"
STATUS_YIELD == "YIELD"
STATUS_YIELD_TICK == "YIELD_TICK"
STATUS_DONE == "DONE"

\* `let numActiveThreads = Infinity`: more than any count of threads
Infinity == MaxBlocks + 1

(***************************************************************************)
(* The targets of the modelled project and what the host passed to their   *)
(* constructors.  Times are in ms, rates in percent; the values are chosen *)
(* so that every per-tick increment is a whole number of frames or         *)
(* samples.                                                                *)
(***************************************************************************)
VideoIds == {"v1"}
AudioIds == {"a1", "a2"}

\* runtime.currentStepTime (ms)
currentStepTime == 100

\* audioInfo: totalSamples, sampleRate, trimStart, trimEnd.  A playing sound
\* moves two samples in a tick.
AudioInfo ==
    [a \in AudioIds |-> [totalSamples |-> 4, sampleRate |-> 20,
                         trimStart |-> 1, trimEnd |-> 3]]

VARIABLES
    mode,              \* which family of scripts the host runs
    threads,           \* runtime.threads: sequence of thread ids
    thr,               \* the Thread objects, by id
    vtargets,          \* VideoTarget state, by id
    atargets,          \* AudioTarget state, by id
    videoPlaying,      \* runtime.videoState.playing: entries keyed by target id
    audioPlaying,      \* runtime.audioState.playing: entries keyed by play id
    uidNext,           \* uid(): the next fresh id
    redrawRequested,   \* runtime.redrawRequested
    pc,                \* position inside stepThreads ("idle" between calls)
    idx,               \* the for loop's i (1-based)
    numActiveThreads,  \* stepThreads' local
    ranFirstTick,      \* stepThreads' local
    doneThreads,       \* stepThreads' local: the done slots
    ticks,             \* calls of stepThreads so far
    stops,             \* PROJECT_STOP_ALL broadcasts so far
    order,             \* runtime.videoState.order: the drawing order, back to front
    playing,           \* runtime.videoState.playing of the sequence-based blocks
    playingFlag,       \* VideoTarget.playing, by id
    motion,            \* runtime.motion
    born,              \* history: what was queued during the current call
    last               \* history: the last operation and what it saw

vars == <<mode, threads, thr, vtargets, atargets, videoPlaying, audioPlaying,
          uidNext, redrawRequested, pc, idx, numActiveThreads, ranFirstTick,
          doneThreads, ticks, stops, order, playing, playingFlag, motion,
          born, last>>

\* videoInfo: fps, frames; trimStart <= trimEnd inside [0, frames - 1].  At
\* rate 100 a playing video moves two frames in a tick.  The video of the
\* project of mode "trim" is trimmed at its start too.
VideoInfo ==
    [v \in VideoIds |-> [fps |-> 20, frames |-> 5,
                         trimStart |-> IF mode = "trim" THEN 1 ELSE 0,
                         trimEnd |-> 3]]

(***************************************************************************)
(* Utilities of the VM.                                                    *)
(***************************************************************************)
\* MathUtil.clamp
clamp(n, lo, hi) == IF n < lo THEN lo ELSE IF n > hi THEN hi ELSE n

\* Math.max / Math.min
Max(a, b) == IF a > b THEN a ELSE b
Min(a, b) == IF a < b THEN a ELSE b

\* thread.warpTimer = null; otherwise warpTimer is the elapsed time (ms)
\* the timer showed when it was last read
NoTimer == -1

\* the null block id
NullBlock == [op |-> "null", a |-> 0, b |-> 0]

Blk(op, a, b) == [op |-> op, a |-> a, b |-> b]

\* a fresh stack frame (Thread.pushStack): no playingId yet
NewFrame(block, warp) ==
    [block |-> block, playingId |-> 0, isLoop |-> FALSE, warpMode |-> warp,
     waitingReporter |-> FALSE]

\* Thread.peekStack / peekStackFrame
peekStack(th) ==
    IF Len(th.stack) = 0 THEN NullBlock ELSE th.stack[Len(th.stack)].block

peekStackFrame(th) == th.stack[Len(th.stack)]

\* Thread.popStack
popStack(th) == [th EXCEPT !.stack = SubSeq(th.stack, 1, Len(th.stack) - 1)]

\* Thread.pushStack: the new frame inherits warp mode from the frame below
pushStack(th, block) ==
    [th EXCEPT !.stack = Append(th.stack,
        NewFrame(block, Len(th.stack) > 0 /\ peekStackFrame(th).warpMode))]

\* Thread.goToNextBlock: the top of the stack becomes the next block of the
\* script (null at its end); the frame is reused, reset except for warpMode
goToNextBlock(th, nxt) ==
    [th EXCEPT
        !.stack[Len(th.stack)] = NewFrame(nxt, peekStackFrame(th).warpMode),
        !.n = IF nxt = NullBlock \/ (mode = "burst" /\ nxt = peekStack(th))
              THEN th.n ELSE th.n + 1,
        !.rep = IF nxt = NullBlock THEN th.rep ELSE th.rep + 1]

(***************************************************************************)
(* The state the primitives work on, as one record w:                      *)
(*   th, vt, at, vp, ap, uid, redraw, born  for                            *)
(*   thr, vtargets, atargets, videoPlaying, audioPlaying, uidNext,         *)
(*   redrawRequested, born.                                                *)
(* util.target is w.th[t].target, util.stackFrame the top frame of thread  *)
(* t, util.thread the thread t.                                            *)
(***************************************************************************)
World ==
    [th |-> thr, vt |-> vtargets, at |-> atargets, vp |-> videoPlaying,
     ap |-> audioPlaying, uid |-> uidNext, redraw |-> redrawRequested,
     born |-> born]

TargetOf(w, t) == w.th[t].target

PlayingIdOf(w, t) == peekStackFrame(w.th[t]).playingId

SetPlayingId(w, t, id) ==
    [w EXCEPT !.th[t].stack[Len(w.th[t].stack)].playingId = id]

SetStatus(w, t, s) == [w EXCEPT !.th[t].status = s]

\* the entry of videoState.playing under key v (the empty set when absent)
VideoEntries(vp, v) == {e \in vp : e.key = v}

\* the entry of audioState.playing under play id (the empty set when absent)
AudioEntries(ap, id) == {e \in ap : e.id = id}

(***************************************************************************)
(* VideoTarget and AudioTarget operations.                                 *)
(***************************************************************************)
\* VideoTarget.setCurrentFrame
setCurrentFrame(w, v, frame) ==
    [w EXCEPT !.vt[v].currentFrame = clamp(frame, 0, VideoInfo[v].frames - 1),
              !.redraw = TRUE]

\* VideoTarget.setRate
setRate(w, v, rate) ==
    [w EXCEPT !.vt[v].playbackRate = clamp(rate, -1000, 1000),
              !.redraw = TRUE]

\* a faulty AudioTarget.setRate: the range of the video target's rate
AudioTarget_setRate_signed(w, a, rate) ==
    [w EXCEPT !.at[a].playbackRate = clamp(rate, -1000, 1000),
              !.redraw = TRUE]

\* AudioTarget.setRate
AudioTarget_setRate(w, a, rate) ==
    [w EXCEPT !.at[a].playbackRate = clamp(rate, 0, 1000),
              !.redraw = TRUE]

\* AudioTarget.setVolume
setVolume(w, a, vol) == [w EXCEPT !.at[a].volume = clamp(vol, 0, 500)]

(***************************************************************************)
(* The drawing order (runtime.videoState.order) and the layering           *)
(* operations of VideoTarget.  Indexes are JavaScript's, from 0.           *)
(***************************************************************************)
\* Array.prototype.indexOf: the first index of x, -1 when there is none
indexOf(array, x) ==
    IF \E k \in 1..Len(array) : array[k] = x
    THEN (CHOOSE k \in 1..Len(array) :
              /\ array[k] = x
              /\ \A j \in 1..(k - 1) : array[j] # x) - 1
    ELSE -1

\* Array.prototype.splice(start, deleteCount, ...items): a negative start
\* counts from the end, a start past the end is the end
splice(array, start, deleteCount, items) ==
    LET len == Len(array)
        actualStart == IF start < 0 THEN Max(len + start, 0) ELSE Min(start, len)
        actualDeleteCount == clamp(deleteCount, 0, len - actualStart)
    IN  SubSeq(array, 1, actualStart) \o items
            \o SubSeq(array, actualStart + actualDeleteCount + 1, len)

\* a faulty goToFront: the id is not looked for
goToFront_withoutLookup(ord, id) ==
    Append(splice(ord, indexOf(ord, id), 1, <<>>), id)

\* VideoTarget.goToFront
goToFront(ord, id) ==
    LET index == indexOf(ord, id)
    IN  IF index = -1
        THEN ord
        ELSE Append(splice(ord, index, 1, <<>>), id)

\* VideoTarget.goToBack
goToBack(ord, id) ==
    LET index == indexOf(ord, id)
    IN  IF index = -1
        THEN ord
        ELSE <<id>> \o splice(ord, index, 1, <<>>)

\* VideoTarget.goForwardLayers
goForwardLayers(ord, id, nLayers) ==
    LET index == indexOf(ord, id)
        removed == splice(ord, index, 1, <<>>)
        moved == index + nLayers
    IN  IF index = -1
        THEN ord
        ELSE splice(removed,
                    IF moved >= Len(removed) THEN Len(removed) ELSE moved,
                    0, <<id>>)

\* VideoTarget.goBackwardLayers
goBackwardLayers(ord, id, nLayers) ==
    LET index == indexOf(ord, id)
        removed == splice(ord, index, 1, <<>>)
        moved == index - nLayers
    IN  IF index = -1
        THEN ord
        ELSE splice(removed, IF moved < 0 THEN 0 ELSE moved, 0, <<id>>)

(***************************************************************************)
(* The sequence-based play list of the legacy blocks: runtime.videoState   *)
(* .playing is an array of target ids and every VideoTarget has a playing  *)
(* flag.  The state these operations work on is a record st with the       *)
(* fields playing, flag and redraw.                                        *)
(***************************************************************************)
\* VideoTarget.setPlaying
setPlaying(st, v, isPlaying) ==
    IF st.flag[v] = isPlaying
    THEN st
    ELSE IF isPlaying
    THEN [st EXCEPT !.flag[v] = TRUE, !.playing = Append(@, v), !.redraw = TRUE]
    ELSE LET i == indexOf(st.playing, v)
         IN  [st EXCEPT !.flag[v] = FALSE,
                        !.playing = IF i # -1 THEN splice(@, i, 1, <<>>) ELSE @,
                        !.redraw = TRUE]

\* the legacy startPlaying and stopPlaying
legacy_startPlaying(st, v) == IF st.flag[v] THEN st ELSE setPlaying(st, v, TRUE)

legacy_stopPlaying(st, v) == IF ~st.flag[v] THEN st ELSE setPlaying(st, v, FALSE)

\* Array.prototype.forEach over runtime.videoState.playing with the legacy
\* handler's callback `vId => getTargetById(vId).setPlaying(false)`: the
\* indexes 0..len-1 of the array as it was at the start are visited in
\* turn, an index the array no longer has is skipped, and the element is
\* read when its index is reached
RECURSIVE forEachSetPlayingFalse(_, _, _)
forEachSetPlayingFalse(st, k, len) ==
    IF k >= len
    THEN st
    ELSE IF k < Len(st.playing)
    THEN forEachSetPlayingFalse(setPlaying(st, st.playing[k + 1], FALSE),
                                k + 1, len)
    ELSE forEachSetPlayingFalse(st, k + 1, len)

\* the legacy handler of PROJECT_STOP_ALL
legacy_PROJECT_STOP_ALL(st) == forEachSetPlayingFalse(st, 0, Len(st.playing))

(***************************************************************************)
(* Video primitives of SteinaBlocks.                                       *)
(***************************************************************************)
\* a faulty _queueVideo: the new entry is added beside the old one
_queueVideo_adds(w, t, v, start, end, blocking) ==
    [w EXCEPT
        !.vp = @ \cup {[key |-> v, id |-> w.uid, start |-> start, end |-> end,
                        threadTopBlock |-> w.th[t].topBlock,
                        blocking |-> blocking]},
        !.uid = @ + 1,
        !.born = @ \cup {w.uid}]

\* _queueVideo: the assignment playing[videoTarget.id] = playingVideo
\* replaces whatever entry the key had
_queueVideo(w, t, v, start, end, blocking) ==
    [w EXCEPT
        !.vp = (@ \ VideoEntries(@, v))
               \cup {[key |-> v, id |-> w.uid, start |-> start, end |-> end,
                      threadTopBlock |-> w.th[t].topBlock,
                      blocking |-> blocking]},
        !.uid = @ + 1,
        !.born = @ \cup {w.uid}]

\* a faulty lookup: only a missing entry ends the wait, not one with
\* another id
VideoPlayGone_absentOnly(w, t) == VideoEntries(w.vp, TargetOf(w, t)) = {}

\* the second and later entries of a blocking video primitive: TRUE when
\* the primitive returns at once (its play ended or was overwritten)
VideoPlayGone(w, t) ==
    LET playingId == PlayingIdOf(w, t)
        playingVideo == VideoEntries(w.vp, TargetOf(w, t))
    IN  playingVideo = {} \/ \A e \in playingVideo : e.id # playingId

playEntireVideoUntilDone(w, t, args) ==
    LET v == TargetOf(w, t)
    IN  IF PlayingIdOf(w, t) = 0
        THEN LET w1 == [w EXCEPT !.vt[v].currentFrame = VideoInfo[v].trimStart]
                 w2 == _queueVideo(w1, t, v, VideoInfo[v].trimStart,
                                   VideoInfo[v].trimEnd, TRUE)
             IN  SetStatus(SetPlayingId(w2, t, w.uid), t, STATUS_YIELD_TICK)
        ELSE IF VideoPlayGone(w, t) THEN w
        ELSE SetStatus(w, t, STATUS_YIELD_TICK)

playVideoFromAToB(w, t, args) ==
    LET v == TargetOf(w, t)
        start == args.a
        end == args.b
    IN  IF PlayingIdOf(w, t) = 0
        THEN LET w1 == [w EXCEPT !.vt[v].currentFrame = start]
                 w2 == _queueVideo(w1, t, v, start, end, TRUE)
             IN  SetStatus(SetPlayingId(w2, t, w.uid), t, STATUS_YIELD_TICK)
        ELSE IF VideoPlayGone(w, t) THEN w
        ELSE SetStatus(w, t, STATUS_YIELD_TICK)

\* args.a = 1 for DIRECTION 'forward', anything else for 'reverse'
playForwardReverseUntilDone(w, t, args) ==
    LET v == TargetOf(w, t)
    IN  IF PlayingIdOf(w, t) = 0
        THEN LET w2 == IF args.a = 1
                       THEN _queueVideo(w, t, v, w.vt[v].currentFrame,
                                        VideoInfo[v].trimEnd, TRUE)
                       ELSE _queueVideo(w, t, v, w.vt[v].currentFrame,
                                        VideoInfo[v].trimStart, TRUE)
             IN  SetStatus(SetPlayingId(w2, t, w.uid), t, STATUS_YIELD_TICK)
        ELSE IF VideoPlayGone(w, t) THEN w
        ELSE SetStatus(w, t, STATUS_YIELD_TICK)

startPlayingForwardReverse(w, t, args) ==
    LET v == TargetOf(w, t)
    IN  IF args.a = 1
        THEN _queueVideo(w, t, v, w.vt[v].currentFrame, VideoInfo[v].trimEnd, FALSE)
        ELSE _queueVideo(w, t, v, w.vt[v].currentFrame, VideoInfo[v].trimStart, FALSE)

setPlayRate(w, t, args) ==
    IF TargetOf(w, t) \in VideoIds
    THEN setRate(w, TargetOf(w, t), args.a)
    ELSE AudioTarget_setRate(w, TargetOf(w, t), args.a)

changePlayRateBy(w, t, args) ==
    LET v == TargetOf(w, t)
    IN  IF v \in VideoIds
        THEN setRate(w, v, w.vt[v].playbackRate + args.a)
        ELSE AudioTarget_setRate(w, v, w.at[v].playbackRate + args.a)

\* a faulty startPlaying: the thread waits for the play it queued
startPlaying_yields(w, t, args) ==
    LET v == TargetOf(w, t)
        w2 == _queueVideo(w, t, v, w.vt[v].currentFrame, VideoInfo[v].trimEnd,
                          FALSE)
    IN  SetStatus(SetPlayingId(w2, t, w.uid), t, STATUS_YIELD_TICK)

startPlaying(w, t, args) ==
    LET v == TargetOf(w, t)
    IN  _queueVideo(w, t, v, w.vt[v].currentFrame, VideoInfo[v].trimEnd, FALSE)

\* a faulty stopPlaying: the entry stays in the queue
stopPlaying_keepsEntry(w, t, args) == w

stopPlaying(w, t, args) ==
    LET v == TargetOf(w, t)
    IN  [w EXCEPT !.vp = @ \ VideoEntries(@, v)]

\* a faulty goToFrame: the frame number is taken as 0-indexed
goToFrame_zeroIndexed(w, t, args) ==
    LET v == TargetOf(w, t)
    IN  setCurrentFrame(w, v, args.a + VideoInfo[v].trimStart)

goToFrame(w, t, args) ==
    LET v == TargetOf(w, t)
    IN  setCurrentFrame(w, v, (args.a + VideoInfo[v].trimStart) - 1)

playNFrames(w, t, args) ==
    LET v == TargetOf(w, t)
    IN  IF PlayingIdOf(w, t) = 0
        THEN LET framesToPlay == args.a
                 endFrame == clamp(w.vt[v].currentFrame + framesToPlay,
                                   VideoInfo[v].trimStart, VideoInfo[v].trimEnd)
                 w2 == _queueVideo(w, t, v, w.vt[v].currentFrame, endFrame, TRUE)
             IN  SetStatus(SetPlayingId(w2, t, w.uid), t, STATUS_YIELD_TICK)
        ELSE IF VideoPlayGone(w, t) THEN w
        ELSE SetStatus(w, t, STATUS_YIELD_TICK)

playForwardUntilDone(w, t, args) ==
    LET v == TargetOf(w, t)
    IN  IF PlayingIdOf(w, t) = 0
        THEN LET w2 == _queueVideo(w, t, v, w.vt[v].currentFrame,
                                   VideoInfo[v].trimEnd, TRUE)
             IN  SetStatus(SetPlayingId(w2, t, w.uid), t, STATUS_YIELD_TICK)
        ELSE IF VideoPlayGone(w, t) THEN w
        ELSE SetStatus(w, t, STATUS_YIELD_TICK)

playBackwardUntilDone(w, t, args) ==
    LET v == TargetOf(w, t)
    IN  IF PlayingIdOf(w, t) = 0
        THEN LET w2 == _queueVideo(w, t, v, w.vt[v].currentFrame,
                                   VideoInfo[v].trimStart, TRUE)
             IN  SetStatus(SetPlayingId(w2, t, w.uid), t, STATUS_YIELD_TICK)
        ELSE IF VideoPlayGone(w, t) THEN w
        ELSE SetStatus(w, t, STATUS_YIELD_TICK)

nextFrame(w, t, args) ==
    LET v == TargetOf(w, t)
    IN  setCurrentFrame(w, v, w.vt[v].currentFrame + 1)

previousFrame(w, t, args) ==
    LET v == TargetOf(w, t)
    IN  setCurrentFrame(w, v, w.vt[v].currentFrame - 1)

(***************************************************************************)
(* Audio primitives of SteinaBlocks.                                       *)
(***************************************************************************)
_queueSound(w, a, start, end, playbackRate, blocking) ==
    LET firstSample == Max(start, 0)
        lastSample == Min(end, AudioInfo[a].totalSamples - 1)
    IN  [w EXCEPT
            !.ap = (@ \ AudioEntries(@, w.uid))
                   \cup {[id |-> w.uid, audioTargetId |-> a,
                          sampleRate |-> AudioInfo[a].sampleRate,
                          start |-> firstSample, end |-> lastSample,
                          playbackRate |-> playbackRate,
                          prevPlayhead |-> firstSample,
                          playhead |-> firstSample, blocking |-> blocking]},
            !.uid = @ + 1,
            !.born = @ \cup {w.uid}]

\* a faulty startSound: queues without looking at the counter
startSound_unguarded(w, t, args) ==
    LET a == TargetOf(w, t)
        w1 == _queueSound(w, a, AudioInfo[a].trimStart, AudioInfo[a].trimEnd,
                          w.at[a].playbackRate, FALSE)
    IN  [w1 EXCEPT !.at[a].nonblockingSoundsAvailable = @ - 1]

startSound(w, t, args) ==
    LET a == TargetOf(w, t)
    IN  IF w.at[a].nonblockingSoundsAvailable > 0
        THEN LET w1 == _queueSound(w, a, AudioInfo[a].trimStart,
                                   AudioInfo[a].trimEnd,
                                   w.at[a].playbackRate, FALSE)
             IN  [w1 EXCEPT !.at[a].nonblockingSoundsAvailable = @ - 1]
        ELSE w

\* the second and later entries of a blocking audio primitive: TRUE when
\* the primitive returns at once (its play was removed)
AudioPlayGone(w, t) == AudioEntries(w.ap, PlayingIdOf(w, t)) = {}

\* a faulty playSound: a later entry returns whether or not the sound is
\* still playing
playSound_noReyield(w, t, args) ==
    LET a == TargetOf(w, t)
    IN  IF PlayingIdOf(w, t) = 0
        THEN LET w1 == _queueSound(w, a, AudioInfo[a].trimStart,
                                   AudioInfo[a].trimEnd,
                                   w.at[a].playbackRate, TRUE)
             IN  SetStatus(SetPlayingId(w1, t, w.uid), t, STATUS_YIELD_TICK)
        ELSE w

playSound(w, t, args) ==
    LET a == TargetOf(w, t)
    IN  IF PlayingIdOf(w, t) = 0
        THEN LET w1 == _queueSound(w, a, AudioInfo[a].trimStart,
                                   AudioInfo[a].trimEnd,
                                   w.at[a].playbackRate, TRUE)
             IN  SetStatus(SetPlayingId(w1, t, w.uid), t, STATUS_YIELD_TICK)
        ELSE IF AudioPlayGone(w, t) THEN w
        ELSE SetStatus(w, t, STATUS_YIELD_TICK)

startSoundFromAToB(w, t, args) ==
    LET a == TargetOf(w, t)
        start == args.a
        end == args.b
    IN  IF w.at[a].nonblockingSoundsAvailable > 0
        THEN LET w1 == _queueSound(w, a, start, end, w.at[a].playbackRate, FALSE)
             IN  [w1 EXCEPT !.at[a].nonblockingSoundsAvailable = @ - 1]
        ELSE w

playSoundFromAToB(w, t, args) ==
    LET a == TargetOf(w, t)
        start == args.a
        end == args.b
    IN  IF PlayingIdOf(w, t) = 0
        THEN LET w1 == _queueSound(w, a, start, end, w.at[a].playbackRate, TRUE)
             IN  SetStatus(SetPlayingId(w1, t, w.uid), t, STATUS_YIELD_TICK)
        ELSE IF AudioPlayGone(w, t) THEN w
        ELSE SetStatus(w, t, STATUS_YIELD_TICK)

setVolumeTo(w, t, args) == setVolume(w, TargetOf(w, t), args.a)

changeVolumeBy(w, t, args) ==
    LET target == TargetOf(w, t)
    IN  setVolume(w, target, w.at[target].volume + args.a)

(***************************************************************************)
(* Hats and reporters of SteinaBlocks.                                     *)
(***************************************************************************)
\* whenTapped of target v on the targets vt: the targets afterwards and
\* the value reported
whenTapped(vt, v) == [vt |-> vt, value |-> vt[v].tapped]

\* isTapped
isTapped(vt, v) == vt[v].tapped

\* CardinalDirections
NORTH == "north"
SOUTH == "south"
EAST == "east"
WEST == "west"
CardinalDirections == {NORTH, SOUTH, EAST, WEST}

\* Math.abs
Abs(x) == IF x < 0 THEN 0 - x ELSE x

\* a faulty _isPointed: the window around north as wide as the others
_isPointed_wideNorth(compass, direction) ==
    CASE direction = NORTH ->
             compass <= COMPASS_THRESHOLD \/ compass >= 360 - COMPASS_THRESHOLD
      [] direction = SOUTH -> Abs(compass - 180) <= COMPASS_THRESHOLD
      [] direction = EAST -> Abs(compass - 90) <= COMPASS_THRESHOLD
      [] direction = WEST -> Abs(compass - 270) <= COMPASS_THRESHOLD

\* SteinaBlocks._isPointed, compass being runtime.motion.heading
_isPointed(compass, direction) ==
    CASE direction = NORTH ->
             \/ compass <= COMPASS_THRESHOLD \div 2
             \/ compass >= 360 - (COMPASS_THRESHOLD \div 2)
      [] direction = SOUTH -> Abs(compass - 180) <= COMPASS_THRESHOLD
      [] direction = EAST -> Abs(compass - 90) <= COMPASS_THRESHOLD
      [] direction = WEST -> Abs(compass - 270) <= COMPASS_THRESHOLD

\* SteinaBlocks.whenPointed / isPointed
whenPointed(m, direction) == _isPointed(m.heading, direction)

isPointed(m, direction) == _isPointed(m.heading, direction)

\* SteinaBlocks.getCurrentFrame: the frame as the scripts count it, from 1
\* at the start of the trimmed video
getCurrentFrame(w, v) == (w.vt[v].currentFrame - VideoInfo[v].trimStart) + 1

(***************************************************************************)
(* Control flow: Sequencer.stepToBranch and the loop block that uses it,   *)
(* Sequencer.retireThread and the block that stops its own thread.         *)
(***************************************************************************)
\* a faulty retireThread: the stack is left as it is
retireThread_keepsStack(th) == [th EXCEPT !.status = STATUS_DONE]

\* Sequencer.retireThread
retireThread(th) == [th EXCEPT !.stack = <<>>, !.status = STATUS_DONE]

\* Runtime._stopThread on the running thread: the thread is marked killed
\* and retired; the runtime takes it out of runtime.threads (RemoveKilled)
_stopThread(w, t) ==
    [w EXCEPT !.th[t] = [retireThread(@) EXCEPT !.isKilled = TRUE]]

\* the block that stops the thread that runs it
stopThread(w, t, args) == _stopThread(w, t)

\* runtime.threads without the killed threads
RECURSIVE RemoveKilled(_, _)
RemoveKilled(ths, th) ==
    IF Len(ths) = 0 THEN <<>>
    ELSE IF th[Head(ths)].isKilled THEN RemoveKilled(Tail(ths), th)
    ELSE <<Head(ths)>> \o RemoveKilled(Tail(ths), th)

\* Sequencer.stepToBranch: branchId is the first block of the branch, null
\* for an empty branch
stepToBranch(w, t, branchId, isLoop) ==
    LET th0 == w.th[t]
        th1 == [th0 EXCEPT !.stack[Len(th0.stack)].isLoop = isLoop]
    IN  [w EXCEPT !.th[t] = pushStack(th1, branchId)]

\* the forever block with an empty branch: util.startBranch(1, true)
forever(w, t, args) == stepToBranch(w, t, NullBlock, TRUE)

\* Thread.isRecursiveCall: a call of the same procedure is on the stack
\* below the calling block
isRecursiveCall(th, procedureCode) ==
    \E k \in 1..(Len(th.stack) - 1) :
        th.stack[k].block.op = "call" /\ th.stack[k].block.a = procedureCode

\* the warp flag of a procedure's definition ("run without screen
\* refresh"): procedure 1 has it, procedure 2 has not
ProcedureWarp(procedureCode) == procedureCode = 1

\* blocks.getProcedureDefinition: the definition of a procedure, null for
\* a procedure the target does not define (procedure 3)
getProcedureDefinition(procedureCode) ==
    IF procedureCode \in {1, 2}
    THEN Blk("definition", procedureCode, 0)
    ELSE NullBlock

\* a faulty stepToProcedure: a missing definition is pushed all the same
stepToProcedure_withoutDefinition(w, t, procedureCode) ==
    LET th0 == w.th[t]
        isRecursive == isRecursiveCall(th0, procedureCode)
        th1 == pushStack(th0, Blk("definition", procedureCode, 0))
    IN  IF peekStackFrame(th1).warpMode /\ th1.warpTimer > WARP_TIME
        THEN [w EXCEPT !.th[t] = [th1 EXCEPT !.status = STATUS_YIELD]]
        ELSE IF ProcedureWarp(procedureCode)
        THEN [w EXCEPT !.th[t] =
                 [th1 EXCEPT !.stack[Len(th1.stack)].warpMode = TRUE]]
        ELSE IF isRecursive
        THEN [w EXCEPT !.th[t] = [th1 EXCEPT !.status = STATUS_YIELD]]
        ELSE [w EXCEPT !.th[t] = th1]

\* a faulty stepToProcedure: the warp timer is not looked at
stepToProcedure_noTimeout(w, t, procedureCode) ==
    LET th0 == w.th[t]
        isRecursive == isRecursiveCall(th0, procedureCode)
        th1 == pushStack(th0, Blk("definition", procedureCode, 0))
    IN  IF ProcedureWarp(procedureCode)
        THEN [w EXCEPT !.th[t] =
                 [th1 EXCEPT !.stack[Len(th1.stack)].warpMode = TRUE]]
        ELSE IF isRecursive
        THEN [w EXCEPT !.th[t] = [th1 EXCEPT !.status = STATUS_YIELD]]
        ELSE [w EXCEPT !.th[t] = th1]

\* Sequencer.stepToProcedure
stepToProcedure(w, t, procedureCode) ==
    LET th0 == w.th[t]
        definition == getProcedureDefinition(procedureCode)
        isRecursive == isRecursiveCall(th0, procedureCode)
        th1 == pushStack(th0, definition)
    IN  IF definition = NullBlock
        THEN w
        ELSE IF peekStackFrame(th1).warpMode /\ th1.warpTimer > WARP_TIME
        THEN [w EXCEPT !.th[t] = [th1 EXCEPT !.status = STATUS_YIELD]]
        ELSE IF ProcedureWarp(procedureCode)
        THEN [w EXCEPT !.th[t] =
                 [th1 EXCEPT !.stack[Len(th1.stack)].warpMode = TRUE]]
        ELSE IF isRecursive
        THEN [w EXCEPT !.th[t] = [th1 EXCEPT !.status = STATUS_YIELD]]
        ELSE [w EXCEPT !.th[t] = th1]

\* the call of a procedure: util.startProcedure(procedureCode)
call(w, t, args) == stepToProcedure(w, t, args.a)

\* a block whose primitive returns a promise: execute sets the status
handlePromise(w, t, args) == SetStatus(w, t, STATUS_PROMISE_WAIT)

(***************************************************************************)
(* execute(sequencer, thread): runs the primitive of the block on top of   *)
(* the thread's stack.                                                     *)
(***************************************************************************)
execute(w, t) ==
    LET args == peekStack(w.th[t])
        op == args.op
    IN  CASE op = "playEntireVideoUntilDone" -> playEntireVideoUntilDone(w, t, args)
          [] op = "playVideoFromAToB" -> playVideoFromAToB(w, t, args)
          [] op = "playForwardReverseUntilDone" -> playForwardReverseUntilDone(w, t, args)
          [] op = "startPlayingForwardReverse" -> startPlayingForwardReverse(w, t, args)
          [] op = "setPlayRate" -> setPlayRate(w, t, args)
          [] op = "changePlayRateBy" -> changePlayRateBy(w, t, args)
          [] op = "startPlaying" -> startPlaying(w, t, args)
          [] op = "stopPlaying" -> stopPlaying(w, t, args)
          [] op = "goToFrame" -> goToFrame(w, t, args)
          [] op = "playNFrames" -> playNFrames(w, t, args)
          [] op = "playForwardUntilDone" -> playForwardUntilDone(w, t, args)
          [] op = "playBackwardUntilDone" -> playBackwardUntilDone(w, t, args)
          [] op = "nextFrame" -> nextFrame(w, t, args)
          [] op = "previousFrame" -> previousFrame(w, t, args)
          [] op = "startSound" -> startSound(w, t, args)
          [] op = "playSound" -> playSound(w, t, args)
          [] op = "startSoundFromAToB" -> startSoundFromAToB(w, t, args)
          [] op = "playSoundFromAToB" -> playSoundFromAToB(w, t, args)
          [] op = "setVolumeTo" -> setVolumeTo(w, t, args)
          [] op = "changeVolumeBy" -> changeVolumeBy(w, t, args)
          [] op = "forever" -> forever(w, t, args)
          [] op = "stopThread" -> stopThread(w, t, args)
          [] op = "call" -> call(w, t, args)
          [] op = "promise" -> handlePromise(w, t, args)
          [] OTHER -> w

(***************************************************************************)
(* Sequencer.stepThread.                                                   *)
(***************************************************************************)
\* no target: a thread whose target has been removed
NoTarget == "none"

\* stepThread's inner loop `while (!thread.peekStack())`: pops finished
\* levels of the stack.  The result says whether stepThread returned.  A
\* block that holds a branch or calls a procedure is the last of its level
\* in the modelled scripts, so the level's next block is null.
\* a faulty test after the pop to a loop frame: a warp thread never returns
LoopReturns_neverInWarp(isWarpMode, warpExpired) == ~isWarpMode

\* after the pop to a loop frame: `if (!isWarpMode ||
\* thread.warpTimer.timeElapsed() > Sequencer.WARP_TIME) return`
LoopReturns(isWarpMode, warpExpired) == ~isWarpMode \/ warpExpired

\* a faulty test of the status: a warp thread whose timer is not up goes on
\* whatever it waits for
StatusReturns_warpGoesOn(status, isWarpMode, warpExpired) ==
    ~(isWarpMode /\ ~warpExpired)

\* the test of the status after execute, for the statuses YIELD,
\* PROMISE_WAIT and YIELD_TICK: TRUE when stepThread returns
StatusReturns(status, isWarpMode, warpExpired) ==
    IF status = STATUS_YIELD
    THEN ~(isWarpMode /\ ~warpExpired)
    ELSE TRUE

RECURSIVE PopFinished(_, _)
PopFinished(th, warpExpired) ==
    IF peekStack(th) # NullBlock
    THEN [th |-> th, returned |-> FALSE]
    ELSE LET th1 == popStack(th)
         IN  IF Len(th1.stack) = 0
             THEN [th |-> [th1 EXCEPT !.status = STATUS_DONE], returned |-> TRUE]
             ELSE LET stackFrame == peekStackFrame(th1)
                  IN  IF stackFrame.isLoop
                      THEN [th |-> th1,
                            returned |-> LoopReturns(stackFrame.warpMode,
                                                     warpExpired)]
                      ELSE IF stackFrame.waitingReporter
                      THEN [th |-> th1, returned |-> TRUE]
                      ELSE PopFinished(goToNextBlock(th1, NullBlock), warpExpired)

\* what thread.warpTimer.timeElapsed() shows in one iteration of
\* stepThread's loop: a time up to WARP_TIME or one past it
WarpReading(warpExpired) == IF warpExpired THEN WARP_TIME + 1 ELSE 0

\* One iteration of stepThread's loop `while ((currentBlockId =
\* thread.peekStack()))` for thread t: nxt is the block that follows the
\* current one in the script, warpExpired whether the thread's warp timer
\* is past WARP_TIME (the timer is started when the frame is in warp mode
\* and the thread has none).  The result is the new state and whether
\* stepThread returned.
stepThreadBody(w, t, nxt, warpExpired) ==
    LET isWarpMode == peekStackFrame(w.th[t]).warpMode
        th0 == IF isWarpMode
               THEN [w.th[t] EXCEPT !.warpTimer = WarpReading(warpExpired)]
               ELSE w.th[t]
        currentBlockId == peekStack(th0)
        w0 == [w EXCEPT !.th[t] = th0]
        w1 == IF th0.target = NoTarget
              THEN [w0 EXCEPT !.th[t] = retireThread(th0)]
              ELSE execute(w0, t)
        th1 == w1.th[t]
    IN  IF th1.status = STATUS_YIELD
        THEN [w |-> SetStatus(w1, t, STATUS_RUNNING),
              returned |-> StatusReturns(th1.status, isWarpMode, warpExpired)]
        ELSE IF th1.status = STATUS_PROMISE_WAIT
        THEN [w |-> w1,
              returned |-> StatusReturns(th1.status, isWarpMode, warpExpired)]
        ELSE IF th1.status = STATUS_YIELD_TICK
        THEN [w |-> w1,
              returned |-> StatusReturns(th1.status, isWarpMode, warpExpired)]
        ELSE LET th2 == IF Len(th1.stack) = Len(th0.stack)
                           /\ peekStack(th1) = currentBlockId
                        THEN goToNextBlock(th1, nxt)
                        ELSE th1
                 r == PopFinished(th2, warpExpired)
             IN  [w |-> [w1 EXCEPT !.th[t] = r.th], returned |-> r.returned]

(***************************************************************************)
(* The tail of Sequencer.stepThreads.                                      *)
(***************************************************************************)
\* the subsequence of seq at the positions in keep
RECURSIVE FilterAt(_, _, _)
FilterAt(seq, keep, k) ==
    IF k > Len(seq) THEN <<>>
    ELSE IF k \in keep THEN <<seq[k]>> \o FilterAt(seq, keep, k + 1)
    ELSE FilterAt(seq, keep, k + 1)

\* "Filter inactive threads from runtime.threads": a thread stays when its
\* done slot is null
NullSlot == 0

KeptThreads(ths, done) ==
    FilterAt(ths, {k \in 1..Len(ths) : k <= Len(done) /\ done[k] = NullSlot}, 1)

\* the returned list: the done slots that are not null
ReturnedThreads(done) ==
    FilterAt(done, {k \in 1..Len(done) : done[k] # NullSlot}, 1)

\* the frame increment of one tick for video target v
frameIncrement(vt, v) ==
    (currentStepTime * vt[v].playbackRate * VideoInfo[v].fps) \div 100000

\* the ids the video advancement visits: the targets that have an entry in
\* videoState.playing (the keys _queueVideo writes).  A play ends at the
\* target's trimStart or trimEnd, as lines 826-837 have it, whatever start
\* and end its entry carries.
PlayingVideoIds(vp) == {e.key : e \in vp}

\* a faulty completion test: no play ever finishes
DoneVideoIds_none(vt, vp) == {}

\* the ids that finish in this advancement
DoneVideoIds(vt, vp) ==
    {v \in PlayingVideoIds(vp) :
        LET nextFrame_ == vt[v].currentFrame + frameIncrement(vt, v)
        IN  nextFrame_ <= VideoInfo[v].trimStart
            \/ nextFrame_ >= VideoInfo[v].trimEnd}

\* "update the current frame for any videos that are currently playing"
advanceVideos(w) ==
    LET ids == PlayingVideoIds(w.vp)
        NewFrameOf(v) ==
            LET nextFrame_ == w.vt[v].currentFrame + frameIncrement(w.vt, v)
            IN  IF nextFrame_ <= VideoInfo[v].trimStart
                THEN VideoInfo[v].trimStart
                ELSE IF nextFrame_ >= VideoInfo[v].trimEnd
                THEN VideoInfo[v].trimEnd
                ELSE nextFrame_
    IN  [w EXCEPT
            !.vt = [v \in VideoIds |->
                      IF v \in ids
                      THEN [w.vt[v] EXCEPT
                              !.currentFrame =
                                  clamp(NewFrameOf(v), 0, VideoInfo[v].frames - 1)]
                      ELSE w.vt[v]],
            !.redraw = @ \/ ids # {},
            !.vp = {e \in @ : e.key \notin DoneVideoIds(w.vt, w.vp)}]

\* the sample increment of one tick for a playing sound
sampleIncrement(sound) == (currentStepTime * sound.sampleRate) \div 1000

\* a faulty removal test: a playhead past the end counts as finished too
playingSoundIdsToRemove_atOrPastEnd(ap) == {e \in ap : e.playhead >= e.end}

\* "If the sound finished on the last frame, schedule it for removal"
playingSoundIdsToRemove(ap) == {e \in ap : e.playhead = e.end}

\* a faulty advancement: every removed sound gives a slot back
advanceSounds_alwaysIncrements(w) ==
    LET toRemove == playingSoundIdsToRemove(w.ap)
        Advance(sound) ==
            LET nextPlayhead == sound.playhead + sampleIncrement(sound)
            IN  [sound EXCEPT
                    !.prevPlayhead = sound.playhead,
                    !.playhead = IF nextPlayhead > sound.end
                                 THEN sound.end ELSE nextPlayhead]
    IN  [w EXCEPT
            !.ap = {Advance(e) : e \in (@ \ toRemove)},
            !.at = [a \in AudioIds |->
                      [w.at[a] EXCEPT !.nonblockingSoundsAvailable =
                          @ + Cardinality({e \in toRemove : e.audioTargetId = a})]]]

\* a faulty advancement: a sound queued during this call is left alone
advanceSounds_skipsNew(w) ==
    LET old == {e \in w.ap : e.id \notin w.born}
        toRemove == playingSoundIdsToRemove(old)
        Advance(sound) ==
            LET nextPlayhead == sound.playhead + sampleIncrement(sound)
            IN  [sound EXCEPT
                    !.prevPlayhead = sound.playhead,
                    !.playhead = IF nextPlayhead > sound.end
                                 THEN sound.end ELSE nextPlayhead]
    IN  [w EXCEPT
            !.ap = {Advance(e) : e \in (old \ toRemove)} \cup (@ \ old),
            !.at = [a \in AudioIds |->
                      [w.at[a] EXCEPT !.nonblockingSoundsAvailable =
                          @ + Cardinality({e \in toRemove :
                                ~e.blocking /\ e.audioTargetId = a})]]]

\* a faulty advancement: a sound is removed by the pass in which its
\* playhead reaches its end
advanceSounds_removesAtOnce(w) ==
    LET Advance(sound) ==
            LET nextPlayhead == sound.playhead + sampleIncrement(sound)
            IN  IF sound.playhead = sound.end
                THEN sound
                ELSE [sound EXCEPT
                         !.prevPlayhead = sound.playhead,
                         !.playhead = IF nextPlayhead > sound.end
                                      THEN sound.end ELSE nextPlayhead]
        advanced == {Advance(e) : e \in w.ap}
        toRemove == playingSoundIdsToRemove(advanced)
    IN  [w EXCEPT
            !.ap = advanced \ toRemove,
            !.at = [a \in AudioIds |->
                      [w.at[a] EXCEPT !.nonblockingSoundsAvailable =
                          @ + Cardinality({e \in toRemove :
                                ~e.blocking /\ e.audioTargetId = a})]]]

\* the advancement of the playing sounds and the removal of the finished
advanceSounds(w) ==
    LET toRemove == playingSoundIdsToRemove(w.ap)
        Advance(sound) ==
            LET nextPlayhead == sound.playhead + sampleIncrement(sound)
            IN  [sound EXCEPT
                    !.prevPlayhead = sound.playhead,
                    !.playhead = IF nextPlayhead > sound.end
                                 THEN sound.end ELSE nextPlayhead]
    IN  [w EXCEPT
            !.ap = {Advance(e) : e \in (@ \ toRemove)},
            !.at = [a \in AudioIds |->
                      [w.at[a] EXCEPT !.nonblockingSoundsAvailable =
                          @ + Cardinality({e \in toRemove :
                                ~e.blocking /\ e.audioTargetId = a})]]]

(***************************************************************************)
(* The scripts the host runs.  A script is a straight line of blocks, each *)
(* any block of the menu; all scripts together hold at most MaxBlocks      *)
(* blocks.  The mode says which project runs: one video target with two    *)
(* or three scripts, two audio targets, a video and an audio target, or    *)
(* (mode "burst") one script that goes on repeating a non-blocking start   *)
(* of a sound, as a long run of startSound blocks does.                    *)
(***************************************************************************)
Modes ==
    {"video", "audio", "mixed", "burst", "loop", "live", "frames", "direction",
     "rate", "starts", "tap", "turbo", "kill", "warp", "stale",
     "procs", "layers", "levels", "trim", "compass", "legacy",
     "ends", "release"}

VideoMenu ==
    {Blk(op, 0, 0) : op \in {"playEntireVideoUntilDone", "startPlaying",
                             "stopPlaying", "nextFrame"}}
    \cup {Blk("goToFrame", 5, 0), Blk("setPlayRate", -100, 0)}

AudioMenu ==
    {Blk(op, 0, 0) : op \in {"startSound", "playSound"}}
    \cup {Blk("startSoundFromAToB", 3, 1), Blk("playSoundFromAToB", 0, 5)}

\* the project of mode "loop": scripts on the video target that may end in
\* a forever block; the project of mode "turbo" has the same scripts
LoopMenu ==
    {Blk(op, 0, 0) : op \in {"forever", "playEntireVideoUntilDone", "nextFrame"}}

\* the project of mode "live": the host goes on stepping for ever; the
\* project of mode "tap" has the same scripts
LiveMenu ==
    {Blk(op, 0, 0) : op \in {"playEntireVideoUntilDone", "nextFrame"}}

\* the project of mode "frames": plays between markers and plays of a
\* number of frames; marker 7 is past the last frame of the video
FramesMenu ==
    {Blk("playVideoFromAToB", 7, 9), Blk("playNFrames", 1, 0),
     Blk("playNFrames", 0, 0), Blk("playEntireVideoUntilDone", 0, 0)}

\* the project of mode "direction": plays in a forced direction at either
\* sign of the rate (DIRECTION 0 is 'reverse')
DirectionMenu ==
    {Blk("setPlayRate", -100, 0), Blk("goToFrame", 4, 0),
     Blk("playForwardUntilDone", 0, 0), Blk("playBackwardUntilDone", 0, 0),
     Blk("playForwardReverseUntilDone", 0, 0)}

\* the project of mode "rate": sounds of an audio target whose rate the
\* scripts set
RateMenu ==
    {Blk("setPlayRate", 0, 0), Blk("setPlayRate", 200, 0),
     Blk("startSound", 0, 0), Blk("playSoundFromAToB", 0, 5)}

\* the project of mode "starts": a video and an audio target whose scripts
\* start plays without waiting for them (DIRECTION 1 is 'forward')
StartsMenu(target) ==
    IF target \in VideoIds
    THEN {Blk("startPlaying", 0, 0), Blk("startPlayingForwardReverse", 1, 0),
          Blk("startPlayingForwardReverse", 0, 0)}
    ELSE {Blk("startSound", 0, 0), Blk("startSoundFromAToB", 3, 1)}

\* the project of mode "kill": scripts that may stop their own thread, and
\* threads whose target has been removed
KillMenu ==
    {Blk(op, 0, 0) : op \in {"stopThread", "nextFrame",
                             "playEntireVideoUntilDone"}}

\* the project of mode "warp": scripts that call procedure 1 (warp) or 2,
\* loop, wait for a play or wait for a promise
WarpMenu ==
    {Blk("call", 1, 0), Blk("call", 2, 0), Blk("forever", 0, 0),
     Blk("playEntireVideoUntilDone", 0, 0), Blk("promise", 0, 0)}

\* the project of mode "stale": scripts that call procedure 2, also from
\* inside it, and may stop their own thread, and threads whose target has
\* been removed
StaleMenu == {Blk("call", 2, 0), Blk("stopThread", 0, 0)}

\* the project of mode "procs": scripts of procedure calls only, procedure
\* 3 being one the target does not define
ProcsMenu == {Blk("call", code, 0) : code \in {1, 2, 3}}

\* the project of mode "levels": a video and an audio target whose scripts
\* set and change the rate and, on the audio target, the volume, by
\* amounts inside and outside the ranges
LevelArgs == {-1500, 700}

LevelsMenu(target) ==
    {Blk(op, a, 0) : op \in {"setPlayRate", "changePlayRateBy"}, a \in LevelArgs}
    \cup IF target \in AudioIds
         THEN {Blk(op, a, 0) : op \in {"setVolumeTo", "changeVolumeBy"},
                               a \in LevelArgs}
         ELSE {}

\* the project of mode "trim": scripts that go to frames before, inside
\* and after the video
FrameArgs == {-1, 0, 1, 2, 5, 7}

TrimMenu == {Blk("goToFrame", f, 0) : f \in FrameArgs}

\* the project of mode "ends": sounds of one audio target, played whole or
\* between two markers at the same sample
EndsMenu ==
    {Blk("startSound", 0, 0), Blk("startSoundFromAToB", 2, 2),
     Blk("playSoundFromAToB", 2, 2)}

\* the project of mode "release": a video and an audio target whose
\* scripts wait for plays
ReleaseMenu(target) ==
    IF target \in VideoIds
    THEN {Blk("playEntireVideoUntilDone", 0, 0), Blk("startPlaying", 0, 0)}
    ELSE {Blk("playSoundFromAToB", 0, 5), Blk("startSound", 0, 0)}

Menu(target) ==
    IF mode \in {"loop", "turbo"} THEN LoopMenu
    ELSE IF mode = "release" THEN ReleaseMenu(target)
    ELSE IF mode = "ends" THEN EndsMenu
    ELSE IF mode = "trim" THEN TrimMenu
    ELSE IF mode = "levels" THEN LevelsMenu(target)
    ELSE IF mode = "procs" THEN ProcsMenu
    ELSE IF mode = "stale" THEN StaleMenu
    ELSE IF mode = "warp" THEN WarpMenu
    ELSE IF mode = "kill" THEN KillMenu
    ELSE IF mode = "starts" THEN StartsMenu(target)
    ELSE IF mode \in {"live", "tap"} THEN LiveMenu
    ELSE IF mode = "frames" THEN FramesMenu
    ELSE IF mode = "direction" THEN DirectionMenu
    ELSE IF mode = "rate" THEN RateMenu
    ELSE IF mode = "mixed"
    THEN IF target \in VideoIds
         THEN {Blk(op, 0, 0) : op \in {"playEntireVideoUntilDone", "startPlaying"}}
         ELSE {Blk(op, 0, 0) : op \in {"startSound", "playSound"}}
    ELSE IF mode = "burst"
    THEN {Blk("startSound", 0, 0), Blk("startSoundFromAToB", 3, 1)}
    ELSE IF target \in VideoIds THEN VideoMenu ELSE AudioMenu

\* the targets a new thread may run on; the two audio targets are alike, so
\* the first thread of the audio project runs on a1
ThreadTargets ==
    CASE mode = "video" -> VideoIds
      [] mode = "audio" -> IF Len(thr) = 0 THEN {"a1"} ELSE AudioIds
      [] mode \in {"mixed", "starts", "levels", "release"} ->
             VideoIds \cup {"a1"}
      [] mode = "burst" -> {"a1"}
      [] mode \in {"rate", "ends"} -> {"a1"}
      [] mode \in {"kill", "stale"} -> VideoIds \cup {NoTarget}
      [] OTHER -> VideoIds

\* the blocks of all scripts so far
BlocksUsed ==
    LET sum[k \in 0..Len(thr)] == IF k = 0 THEN 0 ELSE sum[k - 1] + thr[k].n
    IN  sum[Len(thr)]

\* the blocks the scripts of the project may hold in all: one less in the
\* audio project, which has two targets to spread them over, and in the
\* project that is stepped for ever; two more in the project of mode
\* "stale", where a script needs a call, the call inside the procedure and
\* the block after it
BlockLimit ==
    IF mode \in {"audio", "live"} THEN MaxBlocks - 1
    ELSE IF mode = "stale" THEN MaxBlocks + 2
    ELSE MaxBlocks

\* the longest run of mode "burst": enough to use up every slot and more
BurstLen == MAX_SIMULTANEOUS_NONBLOCKING_SOUNDS + 2

\* the blocks that may follow the current block of a thread
NextBlocks(th) ==
    IF mode = "burst"
    THEN IF th.rep < BurstLen
         THEN {peekStack(th), NullBlock}
         ELSE {NullBlock}
    ELSE IF BlocksUsed < BlockLimit
    THEN Menu(th.target) \cup {NullBlock}
    ELSE {NullBlock}

\* every block of every menu
AllBlocks ==
    VideoMenu \cup AudioMenu \cup LoopMenu \cup FramesMenu \cup DirectionMenu
        \cup RateMenu \cup StartsMenu("v1") \cup StartsMenu("a1") \cup KillMenu
        \cup WarpMenu \cup ProcsMenu \cup LevelsMenu("a1")
        \cup TrimMenu \cup EndsMenu
        \cup {NullBlock}

\* the video targets of the project of mode "layers" and the drawing
\* orders it may start with: any targets of the project, each once
LayerIds == {"v1", "v2", "v3", "v4"}

Orders ==
    UNION {{ord \in [1..k -> LayerIds] :
               \A i, j \in 1..k : ord[i] = ord[j] => i = j} :
           k \in 0..Cardinality(LayerIds)}

LayerCounts == (0 - MaxLayers)..MaxLayers

\* the video targets of the project of mode "legacy"
LegacyIds == {"v1", "v2", "v3", "v4"}

\* the headings the device may report: whole degrees of [0, 360)
Headings == 0..359

NoOp(op) ==
    [op |-> op, t |-> 0, blk |-> NullBlock, id |-> 0, present |-> FALSE,
     avail |-> 0, nplays |-> 0, advanced |-> FALSE, elapsed |-> 0,
     target |-> NoTarget, arg |-> "none"]

(***************************************************************************)
(* The state after construction.                                           *)
(***************************************************************************)
InitCommon ==
    /\ threads = <<>>
    /\ thr = <<>>
    /\ vtargets = [v \in VideoIds |->
                     [currentFrame |-> 0, playbackRate |-> 100, tapped |-> FALSE]]
    /\ atargets = [a \in AudioIds |->
                     [nonblockingSoundsAvailable |-> MAX_SIMULTANEOUS_NONBLOCKING_SOUNDS,
                      playbackRate |-> 100, volume |-> 100]]
    /\ videoPlaying = {}
    /\ audioPlaying = {}
    /\ uidNext = 1
    /\ redrawRequested = FALSE
    /\ pc = "idle"
    /\ idx = 0
    /\ numActiveThreads = 0
    /\ ranFirstTick = FALSE
    /\ doneThreads = <<>>
    /\ ticks = 0
    /\ stops = 0
    /\ order \in IF mode = "layers" THEN Orders ELSE {<<"v1">>}
    /\ playing = <<>>
    /\ playingFlag = [v \in IF mode = "legacy" THEN LegacyIds ELSE VideoIds |->
                          FALSE]
    /\ motion \in IF mode = "compass"
                   THEN [heading : Headings]
                   ELSE {[heading |-> 0]}
    /\ born = {}
    /\ last = NoOp("init")

Init == mode \in Modes /\ InitCommon

\* the project with the video target only
InitVideo == mode = "video" /\ InitCommon

\* the projects with audio targets only
InitAudio == mode \in {"audio", "burst"} /\ InitCommon

\* the project with a video and an audio target
InitMixed == mode = "mixed" /\ InitCommon

\* the project whose scripts may loop
InitLoop == mode = "loop" /\ InitCommon

\* the project that is stepped for ever
InitLive == mode = "live" /\ InitCommon

\* the project of plays between markers and of a number of frames
InitFrames == mode = "frames" /\ InitCommon

\* the project of plays in a forced direction
InitDirection == mode = "direction" /\ InitCommon

\* the project of sounds at several rates
InitRate == mode = "rate" /\ InitCommon

\* the project of plays nobody waits for
InitStarts == mode = "starts" /\ InitCommon

\* the project whose video the user taps
InitTap == mode = "tap" /\ InitCommon

\* the project of threads that are stopped or have lost their target
InitKill == mode = "kill" /\ InitCommon

\* the project of recursive procedures and stopped threads
InitStale == mode = "stale" /\ InitCommon

\* the project whose targets are moved in the drawing order
InitLayers == mode = "layers" /\ InitCommon

\* the project of rates and volumes
InitLevels == mode = "levels" /\ InitCommon

\* the project of the trimmed video
InitTrim == mode = "trim" /\ InitCommon

\* the project that asks where the device points
InitCompass == mode = "compass" /\ InitCommon

\* the project run by the legacy blocks
InitLegacy == mode = "legacy" /\ InitCommon

\* the project of sounds that end
InitEnds == mode = "ends" /\ InitCommon

\* the project of waiting scripts that the host stops
InitRelease == mode = "release" /\ InitCommon

\* the project of procedure calls
InitProcs == mode = "procs" /\ InitCommon

\* the project of procedures, some of them in warp mode
InitWarp == mode = "warp" /\ InitCommon

\* the project of looping scripts, with turbo mode on and with it off
InitTurbo == mode \in {"turbo", "loop"} /\ InitCommon


(***************************************************************************)
(* The host.                                                               *)
(***************************************************************************)
\* the host starts a thread on a script of target (Runtime._pushThread)
StartThread(target, block) ==
    /\ pc = "idle"
    /\ BlocksUsed < BlockLimit
    /\ mode = "burst" => Len(thr) = 0
    /\ LET t == Len(thr) + 1
       IN  /\ thr' = Append(thr, [target |-> target, status |-> STATUS_RUNNING,
                                  stack |-> <<NewFrame(block, FALSE)>>,
                                  topBlock |-> t, n |-> 1, rep |-> 1,
                                  isKilled |-> FALSE, warpTimer |-> NoTimer])
           /\ threads' = Append(threads, t)
           /\ last' = [NoOp("startThread") EXCEPT !.t = t]
    /\ UNCHANGED <<mode, order, playing, playingFlag, motion, vtargets, atargets, videoPlaying, audioPlaying, uidNext,
                   redrawRequested, pc, idx, numActiveThreads, ranFirstTick,
                   doneThreads, ticks, stops, born>>

\* a faulty handler of PROJECT_STOP_ALL: the counters are not reset
StopAll_keepsCounters ==
    /\ pc = "idle"
    /\ stops < 1
    /\ videoPlaying' = {}
    /\ audioPlaying' = {}
    /\ stops' = stops + 1
    /\ last' = [NoOp("stopAll") EXCEPT
                    !.nplays = Cardinality(videoPlaying),
                    !.avail = Cardinality({e \in audioPlaying : ~e.blocking}),
                    !.id = Cardinality({e \in audioPlaying : e.blocking})]
    /\ UNCHANGED <<mode, order, playing, playingFlag, motion, threads, thr, vtargets, atargets, uidNext,
                   redrawRequested, pc, idx, numActiveThreads, ranFirstTick,
                   doneThreads, ticks, born>>

\* a faulty handler of PROJECT_STOP_ALL: the playing sounds are left in
\* the queue
StopAll_keepsSounds ==
    /\ pc = "idle"
    /\ stops < 1
    /\ videoPlaying' = {}
    /\ audioPlaying' = audioPlaying
    /\ atargets' = [a \in AudioIds |->
                      [atargets[a] EXCEPT !.nonblockingSoundsAvailable =
                          MAX_SIMULTANEOUS_NONBLOCKING_SOUNDS]]
    /\ stops' = stops + 1
    /\ last' = [NoOp("stopAll") EXCEPT
                    !.nplays = Cardinality(videoPlaying),
                    !.avail = Cardinality({e \in audioPlaying : ~e.blocking}),
                    !.id = Cardinality({e \in audioPlaying : e.blocking})]
    /\ UNCHANGED <<mode, order, playing, playingFlag, motion, threads, thr, vtargets, uidNext, redrawRequested, pc,
                   idx, numActiveThreads, ranFirstTick, doneThreads, ticks, born>>

\* the handler of PROJECT_STOP_ALL
StopAll ==
    /\ pc = "idle"
    /\ stops < 1
    /\ videoPlaying' = {}
    /\ audioPlaying' = {}
    /\ atargets' = [a \in AudioIds |->
                      [atargets[a] EXCEPT !.nonblockingSoundsAvailable =
                          MAX_SIMULTANEOUS_NONBLOCKING_SOUNDS]]
    /\ stops' = stops + 1
    /\ last' = [NoOp("stopAll") EXCEPT
                    !.nplays = Cardinality(videoPlaying),
                    !.avail = Cardinality({e \in audioPlaying : ~e.blocking}),
                    !.id = Cardinality({e \in audioPlaying : e.blocking})]
    /\ UNCHANGED <<mode, order, playing, playingFlag, motion, threads, thr, vtargets, uidNext, redrawRequested, pc,
                   idx, numActiveThreads, ranFirstTick, doneThreads, ticks, born>>

\* the user taps the video of target v: the host's input handler sets the
\* flag
Tap(v) ==
    /\ pc = "idle"
    /\ mode = "tap"
    /\ ~vtargets[v].tapped
    /\ vtargets' = [vtargets EXCEPT ![v].tapped = TRUE]
    /\ last' = NoOp("tap")
    /\ UNCHANGED <<mode, order, playing, playingFlag, motion, threads, thr, atargets, videoPlaying, audioPlaying,
                   uidNext, redrawRequested, pc, idx, numActiveThreads,
                   ranFirstTick, doneThreads, ticks, stops, born>>

\* the host evaluates the "when tapped" hat of every video target, as it
\* does before each call of stepThreads; the scripts under a hat that
\* reported true are started by StartThread
StartHats ==
    /\ pc = "idle"
    /\ mode = "tap"
    /\ vtargets' = [v \in VideoIds |-> whenTapped(vtargets, v).vt[v]]
    /\ last' = [NoOp("whenTapped") EXCEPT
                    !.present = \E v \in VideoIds : whenTapped(vtargets, v).value]
    /\ UNCHANGED <<mode, order, playing, playingFlag, motion, threads, thr, atargets, videoPlaying, audioPlaying,
                   uidNext, redrawRequested, pc, idx, numActiveThreads,
                   ranFirstTick, doneThreads, ticks, stops, born>>

\* what the compass blocks and the device's motion updates leave alone
CompassLeaves ==
    UNCHANGED <<mode, threads, thr, vtargets, atargets, videoPlaying,
                audioPlaying, uidNext, redrawRequested, pc, idx,
                numActiveThreads, ranFirstTick, doneThreads, ticks, stops,
                order, playing, playingFlag, born>>

\* the device turns: the host writes runtime.motion.heading
Turn(heading) ==
    /\ pc = "idle"
    /\ mode = "compass"
    /\ motion' = [motion EXCEPT !.heading = heading]
    /\ last' = NoOp("turn")
    /\ CompassLeaves

\* the hat "when pointed" is evaluated
WhenPointed(direction) ==
    /\ pc = "idle"
    /\ mode = "compass"
    /\ motion' = motion
    /\ last' = [NoOp("whenPointed") EXCEPT
                    !.arg = direction,
                    !.present = whenPointed(motion, direction)]
    /\ CompassLeaves

\* the reporter "is pointed" is evaluated
IsPointed(direction) ==
    /\ pc = "idle"
    /\ mode = "compass"
    /\ motion' = motion
    /\ last' = [NoOp("isPointed") EXCEPT
                    !.arg = direction,
                    !.present = isPointed(motion, direction)]
    /\ CompassLeaves

\* the sequence-based play list and the flags, as the legacy operations
\* see them
LegacyState == [playing |-> playing, flag |-> playingFlag,
                redraw |-> redrawRequested]

\* what the legacy operations leave alone
LegacyLeaves ==
    UNCHANGED <<mode, threads, thr, vtargets, atargets, videoPlaying,
                audioPlaying, uidNext, pc, idx, numActiveThreads,
                ranFirstTick, doneThreads, ticks, stops, order, motion, born>>

\* a script of the legacy blocks starts the video of target v
LegacyStartPlaying(v) ==
    /\ pc = "idle"
    /\ mode = "legacy"
    /\ \E st \in {legacy_startPlaying(LegacyState, v)} :
           /\ playing' = st.playing
           /\ playingFlag' = st.flag
           /\ redrawRequested' = st.redraw
    /\ last' = [NoOp("legacy_startPlaying") EXCEPT
                    !.target = v, !.nplays = Len(playing)]
    /\ LegacyLeaves

\* ... stops it
LegacyStopPlaying(v) ==
    /\ pc = "idle"
    /\ mode = "legacy"
    /\ \E st \in {legacy_stopPlaying(LegacyState, v)} :
           /\ playing' = st.playing
           /\ playingFlag' = st.flag
           /\ redrawRequested' = st.redraw
    /\ last' = [NoOp("legacy_stopPlaying") EXCEPT
                    !.target = v, !.nplays = Len(playing)]
    /\ LegacyLeaves

\* the host broadcasts PROJECT_STOP_ALL to the legacy blocks
LegacyStopAll ==
    /\ pc = "idle"
    /\ mode = "legacy"
    /\ \E st \in {legacy_PROJECT_STOP_ALL(LegacyState)} :
           /\ playing' = st.playing
           /\ playingFlag' = st.flag
           /\ redrawRequested' = st.redraw
    /\ last' = [NoOp("legacy_PROJECT_STOP_ALL") EXCEPT !.nplays = Len(playing)]
    /\ LegacyLeaves

\* what a layering operation leaves alone
LayeringLeaves ==
    UNCHANGED <<mode, threads, thr, vtargets, atargets, videoPlaying,
                audioPlaying, uidNext, redrawRequested, pc, idx,
                numActiveThreads, ranFirstTick, doneThreads, ticks, stops,
                playing, playingFlag, motion, born>>

\* a script or the editor moves target v to the front
LayerToFront(v) ==
    /\ pc = "idle"
    /\ mode = "layers"
    /\ order' = goToFront(order, v)
    /\ last' = [NoOp("goToFront") EXCEPT !.target = v]
    /\ LayeringLeaves

\* ... to the back
LayerToBack(v) ==
    /\ pc = "idle"
    /\ mode = "layers"
    /\ order' = goToBack(order, v)
    /\ last' = [NoOp("goToBack") EXCEPT !.target = v]
    /\ LayeringLeaves

\* ... nLayers layers forward
LayerForward(v, nLayers) ==
    /\ pc = "idle"
    /\ mode = "layers"
    /\ order' = goForwardLayers(order, v, nLayers)
    /\ last' = [NoOp("goForwardLayers") EXCEPT
                    !.target = v, !.blk = Blk("goForwardLayers", nLayers, 0)]
    /\ LayeringLeaves

\* ... nLayers layers backward
LayerBackward(v, nLayers) ==
    /\ pc = "idle"
    /\ mode = "layers"
    /\ order' = goBackwardLayers(order, v, nLayers)
    /\ last' = [NoOp("goBackwardLayers") EXCEPT
                    !.target = v, !.blk = Blk("goBackwardLayers", nLayers, 0)]
    /\ LayeringLeaves

(***************************************************************************)
(* Sequencer.stepThreads.                                                  *)
(***************************************************************************)
\* the host's step: the redraw request of the last step is cleared and
\* stepThreads starts.  In mode "live" the steps never end and ticks stops
\* counting at MaxTicks.
StepThreadsBegin ==
    /\ pc = "idle"
    /\ mode = "live" \/ ticks < MaxTicks
    /\ redrawRequested' = FALSE
    /\ numActiveThreads' = Infinity
    /\ ranFirstTick' = FALSE
    /\ doneThreads' = [k \in 1..Len(threads) |-> NullSlot]
    /\ idx' = 0
    /\ born' = {}
    /\ ticks' = IF ticks < MaxTicks THEN ticks + 1 ELSE ticks
    /\ pc' = "while"
    /\ last' = NoOp("stepThreads")
    /\ UNCHANGED <<mode, order, playing, playingFlag, motion, threads, thr, vtargets, atargets, videoPlaying,
                   audioPlaying, uidNext, stops>>

\* runtime.turboMode: the host sets it for the whole run of the project
turboMode == mode = "turbo"

\* `const WORK_TIME = 0.33 * this.runtime.currentStepTime`
WORK_TIME == (33 * currentStepTime) \div 100

\* what this.timer.timeElapsed() may show when the while condition is
\* evaluated: the timer has just been started at the first evaluation of a
\* call, later it is below WORK_TIME or not
TimerReadings == IF ranFirstTick THEN {0, WORK_TIME} ELSE {0}

\* a faulty while condition: a requested redraw does not stop the passes
LoopCondition_ignoresRedraw(elapsed) ==
    /\ Len(threads) > 0
    /\ numActiveThreads > 0
    /\ elapsed < WORK_TIME

\* the while condition of stepThreads, elapsed being the timer's reading
LoopCondition(elapsed) ==
    /\ Len(threads) > 0
    /\ numActiveThreads > 0
    /\ elapsed < WORK_TIME
    /\ turboMode \/ ~redrawRequested

\* the while condition holds: a new pass
InnerPass ==
    /\ pc = "while"
    /\ \E elapsed \in TimerReadings :
           /\ LoopCondition(elapsed)
           /\ last' = [NoOp("pass") EXCEPT !.elapsed = elapsed]
    /\ numActiveThreads' = 0
    /\ idx' = 1
    /\ pc' = "for"
    /\ UNCHANGED <<mode, order, playing, playingFlag, motion, threads, thr, vtargets, atargets, videoPlaying,
                   audioPlaying, uidNext, redrawRequested, ranFirstTick,
                   doneThreads, ticks, stops, born>>

\* a faulty step of the loop index: a killed thread is not allowed for
NextIndex_noDecrement(i, isKilled) == i + 1

\* the for loop's index after a thread's turn: `if (activeThread.isKilled)
\* { i--; }` and then the loop's i++
NextIndex(i, isKilled) == IF isKilled THEN i ELSE i + 1

\* the code after a thread's turn in the for loop
AfterTurn(th) ==
    /\ numActiveThreads' = IF th.status = STATUS_RUNNING
                           THEN numActiveThreads + 1 ELSE numActiveThreads
    /\ idx' = NextIndex(idx, th.isKilled)
    /\ pc' = "for"

\* a faulty reset: the single-tick yield is cleared in every pass
ClearSingleTickYield_everyPass(activeThread, ranFirst) ==
    IF activeThread.status = STATUS_YIELD_TICK
    THEN [activeThread EXCEPT !.status = STATUS_RUNNING]
    ELSE activeThread

\* "Clear single-tick yield from the last call of `stepThreads`"
ClearSingleTickYield(activeThread, ranFirst) ==
    IF activeThread.status = STATUS_YIELD_TICK /\ ~ranFirst
    THEN [activeThread EXCEPT !.status = STATUS_RUNNING]
    ELSE activeThread

\* one iteration of the for loop up to the call of stepThread; the first
\* lines of stepThread pop a null block
ForVisit ==
    /\ pc = "for"
    /\ idx <= Len(threads)
    /\ LET t == threads[idx]
           activeThread == thr[t]
       IN  IF Len(activeThread.stack) = 0 \/ activeThread.status = STATUS_DONE
           THEN /\ doneThreads' = [doneThreads EXCEPT ![idx] = t]
                /\ idx' = idx + 1
                /\ UNCHANGED <<thr, numActiveThreads, pc>>
           ELSE LET th1 == ClearSingleTickYield(activeThread, ranFirstTick)
                    th2 == IF peekStack(th1) = NullBlock THEN popStack(th1)
                           ELSE th1
                IN  /\ doneThreads' = [doneThreads EXCEPT ![idx] = NullSlot]
                    /\ IF th1.status \in {STATUS_RUNNING, STATUS_YIELD}
                       THEN /\ thr' = [thr EXCEPT ![t] = th2]
                            /\ IF peekStack(th2) # NullBlock
                               THEN /\ pc' = "step"
                                    /\ UNCHANGED <<idx, numActiveThreads>>
                               ELSE AfterTurn(th2)
                       ELSE /\ thr' = [thr EXCEPT ![t] = th1]
                            /\ AfterTurn(th1)
    /\ last' = NoOp("visit")
    /\ UNCHANGED <<mode, order, playing, playingFlag, motion, threads, vtargets, atargets, videoPlaying,
                   audioPlaying, uidNext, redrawRequested, ranFirstTick, ticks,
                   stops, born>>

\* one iteration of stepThread's loop: one block is executed; after the
\* return of stepThread the for loop sets thread.warpTimer = null
StepBlock(nxt, warpExpired) ==
    /\ pc = "step"
    /\ nxt \in NextBlocks(thr[threads[idx]])
    /\ warpExpired => peekStackFrame(thr[threads[idx]]).warpMode
    /\ thr[threads[idx]].warpTimer > WARP_TIME => warpExpired
    /\ \E r \in {stepThreadBody(World, threads[idx], nxt, warpExpired)} :
       LET t == threads[idx]
           w == r.w
       IN  /\ thr' = IF r.returned \/ peekStack(w.th[t]) = NullBlock
                     THEN [w.th EXCEPT ![t].warpTimer = NoTimer]
                     ELSE w.th
           /\ threads' = RemoveKilled(threads, w.th)
           /\ vtargets' = w.vt
           /\ atargets' = w.at
           /\ videoPlaying' = w.vp
           /\ audioPlaying' = w.ap
           /\ uidNext' = w.uid
           /\ redrawRequested' = w.redraw
           /\ born' = w.born
           /\ IF r.returned \/ peekStack(w.th[t]) = NullBlock
              THEN AfterTurn(w.th[t])
              ELSE UNCHANGED <<pc, idx, numActiveThreads>>
           /\ last' = [op |-> "exec", t |-> t, blk |-> peekStack(thr[t]),
                       id |-> PlayingIdOf(World, t),
                       present |->
                           IF thr[t].target \in VideoIds
                           THEN ~VideoPlayGone(World, t)
                           ELSE ~AudioPlayGone(World, t),
                       avail |->
                           IF thr[t].target \in AudioIds
                           THEN atargets[thr[t].target].nonblockingSoundsAvailable
                           ELSE 0,
                       nplays |-> Cardinality(videoPlaying) + Cardinality(audioPlaying),
                       advanced |-> w.th[t].stack # thr[t].stack,
                       elapsed |-> WarpReading(warpExpired),
                       target |-> thr[t].target, arg |-> "none"]
    /\ UNCHANGED <<mode, order, playing, playingFlag, motion, ranFirstTick, doneThreads, ticks, stops>>

\* the for loop ends: "We successfully ticked once"
ForEnd ==
    /\ pc = "for"
    /\ idx > Len(threads)
    /\ ranFirstTick' = TRUE
    /\ pc' = "while"
    /\ last' = NoOp("passEnd")
    /\ UNCHANGED <<mode, order, playing, playingFlag, motion, threads, thr, vtargets, atargets, videoPlaying,
                   audioPlaying, uidNext, redrawRequested, idx,
                   numActiveThreads, doneThreads, ticks, stops, born>>

\* the while loop ends (its condition fails): the done threads are filtered
\* out, the playing videos and sounds advance, stepThreads returns
Finalize ==
    /\ pc = "while"
    /\ \E elapsed \in TimerReadings : ~LoopCondition(elapsed)
    /\ \E w2 \in {advanceSounds(advanceVideos(World))} :
           /\ threads' = KeptThreads(threads, doneThreads)
           /\ doneThreads' = ReturnedThreads(doneThreads)
           /\ vtargets' = w2.vt
           /\ atargets' = w2.at
           /\ videoPlaying' = w2.vp
           /\ audioPlaying' = w2.ap
           /\ redrawRequested' = w2.redraw
    /\ pc' = "idle"
    /\ last' = [NoOp("tick") EXCEPT
                    !.nplays = Cardinality(videoPlaying) + Cardinality(audioPlaying),
                    !.avail = Cardinality({e \in audioPlaying \ audioPlaying' :
                                              ~e.blocking /\ e.playhead = e.end}),
                    !.id = Cardinality({e \in audioPlaying \ audioPlaying' :
                                           e.blocking /\ e.playhead = e.end})]
    /\ UNCHANGED <<mode, order, playing, playingFlag, motion, thr, uidNext, idx, numActiveThreads, ranFirstTick,
                   ticks, stops, born>>

Next ==
    \/ \E target \in ThreadTargets : \E block \in Menu(target) :
            StartThread(target, block)
    \/ StopAll
    \/ StepThreadsBegin
    \/ InnerPass
    \/ ForVisit
    \/ \E nxt \in AllBlocks : \E warpExpired \in BOOLEAN :
            StepBlock(nxt, warpExpired)
    \/ ForEnd
    \/ Finalize

Spec == Init /\ [][Next]_vars

SpecVideo == InitVideo /\ [][Next]_vars

SpecAudio == InitAudio /\ [][Next]_vars

SpecMixed == InitMixed /\ [][Next]_vars

SpecLoop == InitLoop /\ [][Next]_vars

SpecFrames == InitFrames /\ [][Next]_vars

SpecDirection == InitDirection /\ [][Next]_vars

SpecRate == InitRate /\ [][Next]_vars

SpecStarts == InitStarts /\ [][Next]_vars

\* the host's events of the project whose video the user taps
NextTap ==
    \/ Next
    \/ \E v \in VideoIds : Tap(v)
    \/ StartHats

SpecTap == InitTap /\ [][NextTap]_vars

SpecTurbo == InitTurbo /\ [][Next]_vars

SpecKill == InitKill /\ [][Next]_vars

SpecWarp == InitWarp /\ [][Next]_vars

SpecStale == InitStale /\ [][Next]_vars

SpecProcs == InitProcs /\ [][Next]_vars

SpecRelease == InitRelease /\ [][Next]_vars

SpecEnds == InitEnds /\ [][Next]_vars

SpecTrim == InitTrim /\ [][Next]_vars

SpecLevels == InitLevels /\ [][Next]_vars

\* the compass blocks, evaluated at any heading
NextCompass ==
    \/ \E heading \in Headings : Turn(heading)
    \/ \E direction \in CardinalDirections : WhenPointed(direction)
    \/ \E direction \in CardinalDirections : IsPointed(direction)

SpecCompass == InitCompass /\ [][NextCompass]_vars

\* the legacy blocks' play list: starts, stops and the broadcast
NextLegacy ==
    \/ \E v \in LegacyIds : LegacyStartPlaying(v)
    \/ \E v \in LegacyIds : LegacyStopPlaying(v)
    \/ LegacyStopAll

SpecLegacy == InitLegacy /\ [][NextLegacy]_vars

\* the layering operations, called in any order on any target
NextLayers ==
    \/ \E v \in LayerIds : LayerToFront(v)
    \/ \E v \in LayerIds : LayerToBack(v)
    \/ \E v \in LayerIds : \E nLayers \in LayerCounts : LayerForward(v, nLayers)
    \/ \E v \in LayerIds : \E nLayers \in LayerCounts : LayerBackward(v, nLayers)

SpecLayers == InitLayers /\ [][NextLayers]_vars

\* a step of the sequencer: the start of a call of stepThreads or any step
\* inside one
SequencerStep ==
    \/ StepThreadsBegin
    \/ InnerPass
    \/ ForVisit
    \/ \E nxt \in AllBlocks : \E warpExpired \in BOOLEAN :
            StepBlock(nxt, warpExpired)
    \/ ForEnd
    \/ Finalize

\* The host calls stepThreads on a timer for as long as the project runs,
\* and a call of stepThreads runs to its end: the sequencer always takes
\* its next step.
SpecLive == InitLive /\ [][Next]_vars /\ WF_vars(SequencerStep)

(***************************************************************************)
(* The properties.                                                         *)
(***************************************************************************)
\* stepThreads has returned at least once and is not running
AfterStepThreads == pc = "idle" /\ ticks > 0

\* the threads of runtime.threads
Retained == {threads[k] : k \in 1..Len(threads)}

\* C1: after stepThreads returns, every thread still in runtime.threads
\* has a non-empty stack and a status other than DONE, whatever stopped the
\* outer loop, a thread that became DONE during the last pass included.
C1_RetainedThreadsAreLive ==
    AfterStepThreads =>
        \A t \in Retained :
            Len(thr[t].stack) > 0 /\ thr[t].status # STATUS_DONE

\* the non-blocking plays of audio target a in audioState.playing
NonblockingPlays(a) ==
    {e \in audioPlaying : e.audioTargetId = a /\ ~e.blocking}

\* C2: for every audio target, in every reachable state,
\* 0 <= nonblockingSoundsAvailable <= 25 and nonblockingSoundsAvailable is
\* 25 minus the number of the target's non-blocking plays in
\* audioState.playing.
C2_SlotCounter ==
    \A a \in AudioIds :
        /\ atargets[a].nonblockingSoundsAvailable >= 0
        /\ atargets[a].nonblockingSoundsAvailable
               <= MAX_SIMULTANEOUS_NONBLOCKING_SOUNDS
        /\ atargets[a].nonblockingSoundsAvailable =
               MAX_SIMULTANEOUS_NONBLOCKING_SOUNDS
                   - Cardinality(NonblockingPlays(a))

\* C2 happens: every slot of a target is in use and a start has just been
\* dropped
C2_Witness ==
    /\ last.op = "exec" /\ last.avail = 0
    /\ last.blk.op \in {"startSound", "startSoundFromAToB"}
    /\ atargets[thr[last.t].target].nonblockingSoundsAvailable = 0
    /\ Cardinality(NonblockingPlays(thr[last.t].target))
           = MAX_SIMULTANEOUS_NONBLOCKING_SOUNDS

\* thread t is about to execute the block on top of its stack
Stepping(t) == pc = "step" /\ threads[idx] = t

\* the opcodes of the blocking video primitives
BlockingVideoOps ==
    {"playEntireVideoUntilDone", "playVideoFromAToB",
     "playForwardReverseUntilDone", "playNFrames", "playForwardUntilDone",
     "playBackwardUntilDone"}

\* the play thread t waits for: the entry of the queue that carries the
\* playingId of the thread's top frame (the empty set when there is none)
PlayOf(t) ==
    LET id == peekStackFrame(thr[t]).playingId
    IN  IF thr[t].target \in VideoIds
        THEN {e \in VideoEntries(videoPlaying, thr[t].target) : e.id = id}
        ELSE AudioEntries(audioPlaying, id)

\* thread t has started a blocking play that is still in the queue
Blocked(t) ==
    /\ Len(thr[t].stack) > 0
    /\ peekStackFrame(thr[t]).playingId # 0
    /\ PlayOf(t) # {}

\* thread t has started a blocking play that is no longer in the queue
Stale(t) ==
    /\ Len(thr[t].stack) > 0
    /\ peekStackFrame(thr[t]).playingId # 0
    /\ PlayOf(t) = {}

C3_Step(t) ==
    LET v == thr[t].target
    IN  (Stepping(t) /\ v \in VideoIds
            /\ peekStack(thr[t]).op \in BlockingVideoOps) =>
            /\ peekStackFrame(thr[t]).playingId = 0 =>
                   /\ \E e \in videoPlaying' :
                          /\ VideoEntries(videoPlaying', v) = {e}
                          /\ e.id = uidNext /\ e.blocking
                   /\ peekStackFrame(thr'[t]).playingId = uidNext
                   /\ thr'[t].status = STATUS_YIELD_TICK
            /\ Stale(t) =>
                   /\ thr'[t].status # STATUS_YIELD_TICK
                   /\ thr'[t].stack # thr[t].stack
                   /\ videoPlaying' = videoPlaying
            /\ Blocked(t) =>
                   /\ thr'[t].status = STATUS_YIELD_TICK
                   /\ thr'[t].stack = thr[t].stack

\* C3: when threads run blocking video primitives on one video target, the
\* later insertion overwrites the earlier entry (the target's only entry is
\* the new play); the earlier thread, on its next entry into its primitive,
\* finds an entry with another id (or none), returns without YIELD_TICK and
\* moves past the block; the thread whose play is in the queue is set to
\* YIELD_TICK again and stays on its block.
C3_OverwrittenPlayReleasesThread ==
    [][\A t \in 1..Len(thr) : C3_Step(t)]_vars

\* C3 happens: thread t1 has just moved past its blocking video block
\* because the entry of its target belongs to the later play of thread t2,
\* which is still waiting
C3_Witness ==
    \E t1, t2 \in 1..Len(thr) :
        /\ t1 # t2
        /\ thr[t1].target = thr[t2].target
        /\ thr[t1].target \in VideoIds
        /\ last.op = "exec" /\ last.t = t1
        /\ last.blk.op \in BlockingVideoOps
        /\ last.id # 0 /\ ~last.present /\ last.advanced
        /\ Blocked(t2)
        /\ thr[t2].status = STATUS_YIELD_TICK
        /\ peekStackFrame(thr[t2]).playingId > last.id

\* C4: a thread that started a blocking video or audio play does not move
\* past that block while the play with its playingId is in the queue: no
\* step changes its stack, and every entry into the primitive sets the
\* status to YIELD_TICK again.  So the thread moves on only on an entry made
\* after the play was removed or replaced.
C4_BlockedThreadStays ==
    [][\A t \in 1..Len(thr) :
          Blocked(t) =>
              /\ thr'[t].stack = thr[t].stack
              /\ Stepping(t) => thr'[t].status = STATUS_YIELD_TICK]_vars

\* C4 happens: a thread waiting for its sound has just entered playSound
\* again and was set to YIELD_TICK, while another thread waits for its
\* video
C4_Witness ==
    \E t1, t2 \in 1..Len(thr) :
        /\ thr[t1].target \in AudioIds
        /\ thr[t2].target \in VideoIds
        /\ last.op = "exec" /\ last.t = t1
        /\ last.id # 0 /\ last.present /\ ~last.advanced
        /\ Blocked(t1) /\ thr[t1].status = STATUS_YIELD_TICK
        /\ Blocked(t2)

\* the step that ends stepThreads: the media advancement
Advancing == pc = "while" /\ pc' = "idle"

C6_FrameInsideTrim ==
    AfterStepThreads =>
        \A v \in VideoIds :
            /\ VideoInfo[v].trimStart <= vtargets[v].currentFrame
            /\ vtargets[v].currentFrame <= VideoInfo[v].trimEnd

\* the opcodes of the video primitives that queue a play
QueueingVideoOps ==
    BlockingVideoOps \cup {"startPlaying", "startPlayingForwardReverse"}

\* C7: videoState.playing holds at most one play for each video target in
\* every reachable state, and a primitive that queues a play on a target
\* leaves that play as the target's only one.
C7_OnePlayPerVideoTarget ==
    /\ [](\A v \in VideoIds : Cardinality(VideoEntries(videoPlaying, v)) <= 1)
    /\ [][\A t \in 1..Len(thr) :
             (Stepping(t) /\ thr[t].target \in VideoIds /\ uidNext' # uidNext) =>
                 \E e \in videoPlaying' :
                     /\ e.id = uidNext
                     /\ VideoEntries(videoPlaying', thr[t].target) = {e}]_vars

\* C7 happens: a play has just been queued on a target that had one, and
\* the target has one play, the new one
C7_Witness ==
    /\ last.op = "exec"
    /\ last.blk.op \in QueueingVideoOps
    /\ thr[last.t].target \in VideoIds
    /\ last.nplays = 1
    /\ \E e \in videoPlaying :
           /\ e.id = uidNext - 1 /\ e.id > 1
           /\ VideoEntries(videoPlaying, thr[last.t].target) = {e}

\* C8: every play in audioState.playing has start <= playhead <= end and
\* prevPlayhead <= playhead in every reachable state, for every pair of
\* markers given to startSoundFromAToB and playSoundFromAToB.
C8_PlayheadInsideRange ==
    \A e \in audioPlaying :
        /\ e.start <= e.playhead
        /\ e.playhead <= e.end
        /\ e.prevPlayhead <= e.playhead

\* C9: after PROJECT_STOP_ALL is handled videoState.playing is empty,
\* audioState.playing is empty and every audio target's
\* nonblockingSoundsAvailable is 25, whatever plays were active before.
C9_StopAllClearsMedia ==
    [][stops' # stops =>
           /\ videoPlaying' = {}
           /\ audioPlaying' = {}
           /\ \A a \in AudioIds :
                  atargets'[a].nonblockingSoundsAvailable
                      = MAX_SIMULTANEOUS_NONBLOCKING_SOUNDS]_vars

\* C9 happens: PROJECT_STOP_ALL has just been handled while a video play,
\* a non-blocking sound and a blocking sound were active
C9_Witness ==
    /\ last.op = "stopAll"
    /\ last.nplays >= 1 /\ last.avail >= 1 /\ last.id >= 1
    /\ videoPlaying = {} /\ audioPlaying = {}

\* the opcodes of the non-blocking starts of a sound
StartSoundOps == {"startSound", "startSoundFromAToB"}

\* the blocks the one script of mode "burst" has executed
Executed ==
    IF Len(thr) = 0 THEN 0
    ELSE IF peekStack(thr[1]) # NullBlock THEN thr[1].rep - 1
    ELSE thr[1].rep

C10_Step(t) ==
    LET a == thr[t].target
        avail == atargets[a].nonblockingSoundsAvailable
    IN  (Stepping(t) /\ peekStack(thr[t]).op \in StartSoundOps) =>
            /\ avail = 0 =>
                   /\ audioPlaying' = audioPlaying
                   /\ atargets' = atargets
                   /\ execute(World, t).th = thr
                   /\ thr'[t].status \in {STATUS_RUNNING, STATUS_DONE}
            /\ avail > 0 =>
                   /\ \E e \in audioPlaying' :
                          /\ e \notin audioPlaying
                          /\ e.audioTargetId = a /\ ~e.blocking
                          /\ audioPlaying' = audioPlaying \cup {e}
                   /\ atargets'[a].nonblockingSoundsAvailable = avail - 1
                   /\ execute(World, t).th = thr
                   /\ thr'[t].status \in {STATUS_RUNNING, STATUS_DONE}

\* C10: startSound and startSoundFromAToB on a target whose
\* nonblockingSoundsAvailable is 0 change nothing (no play, counter and
\* thread as before: the thread does not yield and goes on with its
\* script); with a positive counter they add exactly one non-blocking play
\* of the target and take 1 from the counter.  So after k
\* consecutive starts on a fresh target within one tick the target has
\* min(k, 25) plays in audioState.playing.
C10_StartSoundTakesASlotOrNothing ==
    /\ [][\A t \in 1..Len(thr) : C10_Step(t)]_vars
    /\ []((mode = "burst" /\ pc # "idle" /\ born # {}) =>
             Cardinality({e \in audioPlaying : e.audioTargetId = "a1"})
                 = Min(Executed, MAX_SIMULTANEOUS_NONBLOCKING_SOUNDS))

\* C10 happens: a script has executed more starts than there are slots in
\* one tick, the last of them was dropped, and the target has 25 plays
C10_Witness ==
    /\ mode = "burst" /\ pc # "idle"
    /\ Executed > MAX_SIMULTANEOUS_NONBLOCKING_SOUNDS
    /\ last.op = "exec" /\ last.blk.op \in StartSoundOps /\ last.avail = 0
    /\ Cardinality({e \in audioPlaying : e.audioTargetId = "a1"})
           = MAX_SIMULTANEOUS_NONBLOCKING_SOUNDS
    /\ Cardinality(born) = MAX_SIMULTANEOUS_NONBLOCKING_SOUNDS

\* the plays of audioState.playing whose playhead is at their end
Finished == {e \in audioPlaying : e.playhead = e.end}

\* C11: in the audio advancement a play leaves audioState.playing exactly
\* when its playhead equals its end at the start of the advancement; every
\* target's nonblockingSoundsAvailable rises by the number of its
\* non-blocking plays removed, so by 1 for each, and the removal of a
\* blocking play changes no counter.
C11_FinishedSoundsAreRemoved ==
    [][Advancing =>
          /\ \A e \in audioPlaying :
                 AudioEntries(audioPlaying', e.id) = {} <=> e \in Finished
          /\ \A a \in AudioIds :
                 atargets'[a].nonblockingSoundsAvailable =
                     atargets[a].nonblockingSoundsAvailable
                         + Cardinality({e \in Finished :
                               ~e.blocking /\ e.audioTargetId = a})]_vars

\* C11 happens: the advancement has just removed a finished blocking play
\* and a finished non-blocking play
C11_Witness ==
    /\ last.op = "tick" /\ last.avail >= 1 /\ last.id >= 1
    /\ pc = "idle"

\* thread t has been set to YIELD_TICK in the running call of stepThreads:
\* its status is YIELD_TICK and either the first pass is over or the first
\* pass has already visited it (the visit of the first pass clears the
\* status the thread brought from the last call)
Parked(t) ==
    /\ pc \in {"while", "for", "step"}
    /\ thr[t].status = STATUS_YIELD_TICK
    /\ \/ ranFirstTick
       \/ pc # "while" /\ \E k \in 1..Len(threads) : threads[k] = t /\ k < idx

\* the for loop is at thread t in the first pass of a call
FirstVisit(t) ==
    /\ pc = "for" /\ idx <= Len(threads) /\ threads[idx] = t
    /\ ~ranFirstTick

\* C12: a thread whose status became YIELD_TICK during a call of
\* stepThreads is not stepped again in that call, whatever passes follow:
\* nothing changes the thread and stepThread is not entered for it.  A
\* YIELD_TICK status ends only at the thread's visit in the first pass of
\* a call, where it is reset to RUNNING and the thread is stepped.
C12_YieldTickParksUntilNextCall ==
    [][\A t \in 1..Len(thr) :
          /\ Parked(t) => thr'[t] = thr[t] /\ ~(Stepping(t))'
          /\ (FirstVisit(t) /\ thr[t].status = STATUS_YIELD_TICK) =>
                 /\ thr'[t].status = STATUS_RUNNING
                 /\ (Stepping(t))'
          /\ (thr[t].status = STATUS_YIELD_TICK
                  /\ thr'[t].status # STATUS_YIELD_TICK) => FirstVisit(t)]_vars

\* C12 happens: in a second pass of one call the for loop has just gone
\* past a thread that yielded for the tick in the first pass, while a
\* looping thread keeps the passes coming
C12_Witness ==
    /\ pc = "for" /\ ranFirstTick /\ last.op = "visit"
    /\ idx > 1 /\ idx - 1 <= Len(threads)
    /\ thr[threads[idx - 1]].status = STATUS_YIELD_TICK
    /\ Blocked(threads[idx - 1])
    /\ peekStackFrame(thr[threads[idx - 1]]).playingId \in born

\* thread t waits in playEntireVideoUntilDone for its play
WaitsForEntireVideo(t) ==
    /\ t <= Len(thr)
    /\ Blocked(t)
    /\ peekStack(thr[t]).op = "playEntireVideoUntilDone"

\* thread t has just entered playEntireVideoUntilDone again, found its play
\* gone and moved past the block without yielding
ReleasedFromEntireVideo(t) ==
    /\ last.op = "exec" /\ last.t = t
    /\ last.blk.op = "playEntireVideoUntilDone"
    /\ last.id # 0 /\ ~last.present /\ last.advanced
    /\ thr[t].status # STATUS_YIELD_TICK

C14_FrameInsideVideo ==
    \A v \in VideoIds :
        /\ 0 <= vtargets[v].currentFrame
        /\ vtargets[v].currentFrame <= VideoInfo[v].frames - 1

\* C15: whenever videoState.playing has an entry for a video target, the
\* target has trimStart <= currentFrame <= trimEnd: right after startPlaying
\* queued the entry from a frame set by goToFrame, and after goToFrame or
\* nextFrame ran while the play was active.
C15_FrameInsideTrimWhilePlaying ==
    \A v \in VideoIds :
        VideoEntries(videoPlaying, v) # {} =>
            /\ VideoInfo[v].trimStart <= vtargets[v].currentFrame
            /\ vtargets[v].currentFrame <= VideoInfo[v].trimEnd

\* the play e heads toward its end: its end is past its start, or the frame
\* increment of its target is positive
TowardEnd(e) == e.end > e.start \/ frameIncrement(vtargets, e.key) > 0

\* C16: the video advancement completes a play at the play's own bounds:
\* when the next frame is >= play.end for a play heading toward its end,
\* currentFrame becomes play.end and the entry is removed.  So
\* playNFrames(n) with currentFrame + n < trimEnd ends with currentFrame =
\* (the frame at the call) + n, not at trimEnd.
C16_PlayEndsAtItsOwnEnd ==
    [][Advancing =>
          \A e \in videoPlaying :
              (TowardEnd(e)
                  /\ vtargets[e.key].currentFrame
                         + frameIncrement(vtargets, e.key) >= e.end) =>
                  /\ vtargets'[e.key].currentFrame = e.end
                  /\ e \notin videoPlaying']_vars

\* thread t is on a playNFrames(0) block whose play it queued during the
\* current (or just ended) call of stepThreads
OnPlayZeroFrames(t) ==
    /\ Len(thr[t].stack) > 0
    /\ peekStack(thr[t]).op = "playNFrames" /\ peekStack(thr[t]).a = 0
    /\ peekStackFrame(thr[t]).playingId \in born

\* C19: a blocking playNFrames(0) completes on the tick it is called (its
\* play has end = currentFrame): when the call of stepThreads returns, no
\* thread is on a playNFrames(0) block it entered during the call, so no
\* thread waits for a later tick to go past the block.
C19_PlayZeroFramesEndsInItsTick ==
    AfterStepThreads => \A t \in 1..Len(thr) : ~OnPlayZeroFrames(t)

\* the opcode and DIRECTION of the block thread t waits in say 'reverse'
WaitsInReverse(t) ==
    /\ Blocked(t)
    /\ \/ peekStack(thr[t]).op = "playBackwardUntilDone"
       \/ /\ peekStack(thr[t]).op = "playForwardReverseUntilDone"
          /\ peekStack(thr[t]).a # 1

\* C17: with a negative playbackRate playForwardUntilDone still goes toward
\* trimEnd (the absolute value of the rate is used): in every advancement
\* while its play is in the queue currentFrame does not decrease, and the
\* play is removed with currentFrame = trimEnd.
C17_ForwardPlayIgnoresRateSign ==
    [][Advancing =>
          \A t \in 1..Len(thr) :
              LET v == thr[t].target
              IN  (Blocked(t) /\ peekStack(thr[t]).op = "playForwardUntilDone"
                      /\ vtargets[v].playbackRate < 0) =>
                      /\ vtargets'[v].currentFrame >= vtargets[v].currentFrame
                      /\ VideoEntries(videoPlaying', v) = {} =>
                             vtargets'[v].currentFrame = VideoInfo[v].trimEnd]_vars

\* C18: playBackwardUntilDone and playForwardReverseUntilDone with
\* DIRECTION 'reverse' play from the current frame to the first frame: with
\* a playbackRate other than 0, of either sign, the play is removed with
\* currentFrame = trimStart.
C18_ReversePlayEndsAtTrimStart ==
    [][Advancing =>
          \A t \in 1..Len(thr) :
              LET v == thr[t].target
              IN  (WaitsInReverse(t) /\ vtargets[v].playbackRate # 0
                      /\ VideoEntries(videoPlaying', v) = {}) =>
                      vtargets'[v].currentFrame = VideoInfo[v].trimStart]_vars

\* the samples a play should move in one tick when its rate counts:
\* (currentStepTime / 1000) * sampleRate * (playbackRate / 100)
RatedSampleIncrement(e) ==
    (currentStepTime * e.sampleRate * e.playbackRate) \div 100000

\* C20: every tick moves the playhead of an unfinished play by
\* (currentStepTime / 1000) * sampleRate * (playbackRate / 100), capped at
\* end, and sets prevPlayhead to the old playhead; so a play queued at rate
\* 0 does not move and a play at rate 200 moves twice as far as at rate
\* 100.
C20_PlayheadMovesByRate ==
    [][Advancing =>
          \A e \in audioPlaying :
              e.playhead # e.end =>
                  \E e2 \in AudioEntries(audioPlaying', e.id) :
                      /\ e2.playhead =
                             Min(e.playhead + RatedSampleIncrement(e), e.end)
                      /\ e2.prevPlayhead = e.playhead]_vars

\* C23: stopPlaying removes the target's entry from videoState.playing, and
\* the media advancement leaves currentFrame as it is for every video target
\* without a play entry: after stopPlaying the frame moves only when a
\* primitive moves it.
C23_StoppedVideoIsFrozen ==
    [][/\ \A t \in 1..Len(thr) :
              (Stepping(t) /\ peekStack(thr[t]).op = "stopPlaying") =>
                  VideoEntries(videoPlaying', thr[t].target) = {}
       /\ Advancing =>
              \A v \in VideoIds :
                  VideoEntries(videoPlaying, v) = {} =>
                      vtargets'[v].currentFrame = vtargets[v].currentFrame
       /\ \A v \in VideoIds :
              (VideoEntries(videoPlaying, v) = {}
                  /\ vtargets'[v].currentFrame # vtargets[v].currentFrame) =>
                  pc = "step"]_vars

\* C23 happens: stopPlaying has just removed a play that had moved the
\* frame for a tick
C23_Witness ==
    /\ last.op = "exec" /\ last.blk.op = "stopPlaying"
    /\ last.nplays = 1
    /\ videoPlaying = {}
    /\ ticks >= 2
    /\ \E v \in VideoIds : vtargets[v].currentFrame = 2

\* the primitives that start a play without waiting for it
NonblockingStartOps ==
    {"startPlaying", "startPlayingForwardReverse", "startSound",
     "startSoundFromAToB"}

\* C24: a non-blocking start primitive leaves every thread as it was, the
\* status and the playingId of the stack frame included; a video start
\* leaves the target with one new entry whose blocking is false; and the
\* calling thread goes on to its next block in the same call of stepThread
\* (or ends, at the end of its script).
C24_NonblockingStartsDoNotYield ==
    [][\A t \in 1..Len(thr) :
           (Stepping(t) /\ peekStack(thr[t]).op \in NonblockingStartOps) =>
               /\ execute(World, t).th = thr
               /\ thr[t].target \in VideoIds =>
                      \E e \in videoPlaying' :
                          /\ VideoEntries(videoPlaying', thr[t].target) = {e}
                          /\ e.id = uidNext
                          /\ ~e.blocking
               /\ \/ thr'[t].stack = <<>> /\ thr'[t].status = STATUS_DONE
                  \/ /\ pc' = "step" /\ idx' = idx
                     /\ thr'[t].rep = thr[t].rep + 1
                     /\ thr'[t].status = thr[t].status
                     /\ peekStackFrame(thr'[t]).playingId = 0]_vars

\* C24 happens: a thread has executed a non-blocking start of a video and
\* is at its next block in the same call of stepThread, a start of a sound
C24_Witness ==
    /\ pc = "step"
    /\ last.op = "exec" /\ last.blk.op = "startPlayingForwardReverse"
    /\ last.t = threads[idx]
    /\ thr[last.t].status = STATUS_RUNNING
    /\ peekStack(thr[last.t]).op = "startPlaying"
    /\ \E e \in videoPlaying : ~e.blocking

\* C21: the tapped flag of a video target, set by the user's tap, is set
\* back to false when the "when tapped" hat observes it: after whenTapped
\* has reported true for a target, the target's tapped is false, so that
\* one tap makes the hat report true once.
C21_TapIsConsumedByHat ==
    [][last'.op = "whenTapped" =>
           \A v \in VideoIds :
               whenTapped(vtargets, v).value => ~isTapped(vtargets', v)]_vars

\* C27: stepThreads begins another inner pass only if at that moment the
\* thread list is not empty, the previous pass counted a thread with status
\* RUNNING (or no pass has run yet in this call), the elapsed time is below
\* WORK_TIME = 0.33 * currentStepTime, and turboMode is set or no redraw has
\* been requested; so with turboMode off no pass starts in a tick once a
\* primitive has requested a redraw.
C27_PassStartsOnlyUnderLoopCondition ==
    [][(pc = "while" /\ pc' = "for") =>
           /\ Len(threads) > 0
           /\ numActiveThreads > 0
           /\ ~ranFirstTick => numActiveThreads = Infinity
           /\ last'.elapsed < WORK_TIME
           /\ 100 * WORK_TIME = 33 * currentStepTime
           /\ turboMode \/ ~redrawRequested]_vars

\* C27 happens: with turbo mode on a second pass of a call has started
\* although a primitive had requested a redraw
C27_Witness ==
    /\ last.op = "pass"
    /\ ranFirstTick
    /\ redrawRequested
    /\ turboMode

\* C25: when stepThread runs a thread whose target is null, the thread is
\* retired without any block being executed: its stack becomes empty, its
\* status DONE, stepThread returns, and no target, play queue or other
\* thread changes.
C25_NullTargetRetiresThread ==
    [][\A t \in 1..Len(thr) :
           (Stepping(t) /\ thr[t].target = NoTarget) =>
               /\ thr'[t].stack = <<>>
               /\ thr'[t].status = STATUS_DONE
               /\ pc' = "for" /\ idx' = idx + 1
               /\ \A u \in 1..Len(thr) : u # t => thr'[u] = thr[u]
               /\ UNCHANGED <<threads, vtargets, atargets, videoPlaying,
                              audioPlaying, uidNext, redrawRequested>>]_vars

\* C25 happens: stepThread has retired a thread without target that had a
\* block to run
C25_Witness ==
    /\ pc = "for"
    /\ last.op = "exec" /\ last.blk.op = "playEntireVideoUntilDone"
    /\ thr[last.t].target = NoTarget
    /\ thr[last.t].stack = <<>>
    /\ videoPlaying = {}

\* the threads the for loop has still to visit in this pass, the one at
\* its index included
Unvisited == {threads[k] : k \in idx..Len(threads)}

\* the step kills the thread that is being stepped
KillsOwnThread(t) == Stepping(t) /\ ~thr[t].isKilled /\ thr'[t].isKilled

\* C26: when a thread is killed during its own step, and so removed from
\* runtime.threads, the loop index is decremented: the threads before it
\* stay where they were, the thread that followed it is at the index the
\* loop visits next, in the same pass; and no turn of a pass leaves its
\* thread among those still to visit, so no thread is visited twice.
C26_KilledThreadKeepsIndexStable ==
    [][/\ \A t \in 1..Len(thr) :
              KillsOwnThread(t) =>
                  /\ pc' = "for" /\ idx' = idx
                  /\ SubSeq(threads', 1, idx - 1) = SubSeq(threads, 1, idx - 1)
                  /\ SubSeq(threads', idx, Len(threads'))
                         = SubSeq(threads, idx + 1, Len(threads))
       /\ (pc \in {"for", "step"} /\ pc' = "for") =>
              /\ threads[idx] \notin Unvisited'
              /\ Unvisited' \subseteq Unvisited]_vars

\* C26 happens: a thread has been killed during its step and the thread
\* that followed it is the next the loop visits
C26_Witness ==
    /\ pc = "for"
    /\ last.op = "exec" /\ last.blk.op = "stopThread"
    /\ thr[last.t].isKilled
    /\ idx <= Len(threads)
    /\ idx > 1
    /\ threads[idx] > last.t

\* the members of a list of threads
Members(list) == {list[k] : k \in 1..Len(list)}

\* no thread is twice in the list
NoDuplicates(list) ==
    \A j, k \in 1..Len(list) : list[j] = list[k] => j = k

\* C28: the finalization of stepThreads partitions the thread list, also
\* when threads have been taken out of the list during the call: the kept
\* threads are in the order they had, the returned list holds exactly the
\* threads the finalization takes out of runtime.threads, each of them
\* once, and no thread is both kept and returned or neither.
C28_FinalizationPartitionsThreads ==
    [][Advancing =>
           /\ threads' = FilterAt(threads,
                                  {k \in 1..Len(threads) :
                                      threads[k] \in Members(threads')}, 1)
           /\ NoDuplicates(threads')
           /\ NoDuplicates(doneThreads')
           /\ Members(threads') \cap Members(doneThreads') = {}
           /\ Members(threads') \cup Members(doneThreads') = Members(threads)]_vars

\* the stepped thread is at a place where a warp thread may have to yield:
\* it calls a procedure (the only source of the status YIELD in the
\* modelled blocks) or the step pops back to a loop frame
AtYieldPoint(t) ==
    \/ peekStack(thr[t]).op = "call"
    \/ thr'[t].stack # <<>> /\ peekStackFrame(thr'[t]).isLoop

C29_WaitingStatusReturnsAtOnce ==
    [][\A t \in 1..Len(thr) :
           (/\ Stepping(t)
            /\ thr[t].target # NoTarget
            /\ execute(World, t).th[t].status
                   \in {STATUS_YIELD_TICK, STATUS_PROMISE_WAIT}) =>
               /\ pc' = "for" /\ idx' = idx + 1
               /\ thr'[t].status = execute(World, t).th[t].status
               /\ Len(thr'[t].stack) = Len(thr[t].stack)
               /\ peekStack(thr'[t]) = peekStack(thr[t])]_vars

\* C29 happens: in warp mode, the timer not past WARP_TIME, a block has
\* left the status PROMISE_WAIT and stepThread has returned
C29_Witness ==
    /\ pc = "for"
    /\ last.op = "exec" /\ last.blk.op = "promise"
    /\ last.elapsed <= WARP_TIME
    /\ thr[last.t].status = STATUS_PROMISE_WAIT
    /\ peekStackFrame(thr[last.t]).warpMode
    /\ peekStack(thr[last.t]).op = "promise"

\* C30: when stepThread pops back to a frame marked isLoop it returns, the
\* loop block on top of the stack and the status RUNNING, unless the frame
\* is in warp mode and the warp timer is not past WARP_TIME: then it goes
\* on to execute the loop block again; and when the stack becomes empty the
\* status is DONE and stepThread returns.
C30_LoopFrameYields ==
    [][\A t \in 1..Len(thr) :
           Stepping(t) =>
               /\ (thr'[t].stack # <<>> /\ peekStackFrame(thr'[t]).isLoop) =>
                      /\ peekStack(thr'[t]).op = "forever"
                      /\ thr'[t].status = STATUS_RUNNING
                      /\ IF peekStackFrame(thr'[t]).warpMode
                            /\ last'.elapsed <= WARP_TIME
                         THEN pc' = "step" /\ idx' = idx
                         ELSE pc' = "for" /\ idx' = idx + 1
               /\ thr'[t].stack = <<>> =>
                      /\ thr'[t].status = STATUS_DONE
                      /\ pc' = "for"]_vars

\* C30 happens: inside a warp procedure a loop has ended a round with the
\* timer not past WARP_TIME, and stepThread is about to execute the loop
\* block again
C30_Witness ==
    /\ pc = "step"
    /\ last.op = "exec" /\ last.blk.op = "forever"
    /\ last.t = threads[idx]
    /\ last.elapsed <= WARP_TIME
    /\ peekStack(thr[last.t]).op = "forever"
    /\ peekStackFrame(thr[last.t]).isLoop
    /\ peekStackFrame(thr[last.t]).warpMode

\* the thread as stepThread hands it to execute: the warp timer shows the
\* reading of this iteration when the frame is in warp mode
Handed(t) ==
    IF peekStackFrame(thr[t]).warpMode
    THEN [thr[t] EXCEPT !.warpTimer = last'.elapsed]
    ELSE thr[t]

\* C31: stepToProcedure with a definition pushes exactly one stack entry,
\* the definition, and then sets the status YIELD if the new frame is in
\* warp mode and the warp timer is past WARP_TIME; otherwise makes the new
\* frame a warp frame if the definition asks for it; otherwise sets the
\* status YIELD if the call is recursive.  Without a definition it changes
\* neither the stack nor the status.
C31_StepToProcedure ==
    [][\A t \in 1..Len(thr) :
           (/\ Stepping(t)
            /\ thr[t].target # NoTarget
            /\ peekStack(thr[t]).op = "call") =>
               LET code == peekStack(thr[t]).a
                   th0 == Handed(t)
                   depth == Len(th0.stack)
                   inWarp == peekStackFrame(th0).warpMode
                   timeUp == last'.elapsed > WARP_TIME
                   recursive ==
                       \E k \in 1..(depth - 1) :
                           th0.stack[k].block = Blk("call", code, 0)
                   th1 == stepToProcedure([World EXCEPT !.th[t] = th0],
                                          t, code).th[t]
               IN  IF code \notin {1, 2}
                   THEN th1 = th0
                   ELSE /\ Len(th1.stack) = depth + 1
                        /\ SubSeq(th1.stack, 1, depth) = th0.stack
                        /\ peekStack(th1) = Blk("definition", code, 0)
                        /\ IF inWarp /\ timeUp
                           THEN /\ th1.status = STATUS_YIELD
                                /\ peekStackFrame(th1).warpMode
                           ELSE IF code = 1
                           THEN /\ th1.status = th0.status
                                /\ peekStackFrame(th1).warpMode
                           ELSE IF recursive
                           THEN /\ th1.status = STATUS_YIELD
                                /\ peekStackFrame(th1).warpMode = inWarp
                           ELSE /\ th1.status = th0.status
                                /\ peekStackFrame(th1).warpMode = inWarp
                        /\ thr'[t].stack = th1.stack
                        /\ thr'[t].status = STATUS_RUNNING
                        /\ pc' = "for" <=>
                               /\ th1.status = STATUS_YIELD
                               /\ ~(inWarp /\ ~timeUp)]_vars

\* C31 happens: a call of the procedure without a definition has left the
\* stack at its height and the thread is at the block after the call
C31_Witness ==
    /\ last.op = "exec" /\ last.blk = Blk("call", 3, 0)
    /\ thr[last.t].status = STATUS_RUNNING
    /\ Len(thr[last.t].stack) = 1
    /\ peekStack(thr[last.t]).op = "call"
    /\ \A k \in 1..Len(thr[last.t].stack) :
           thr[last.t].stack[k].block.op # "definition"

LayerOps == {"goToFront", "goToBack", "goForwardLayers", "goBackwardLayers"}

\* the index the moved target is to have, for a target at index i of an
\* order of length len
LayerIndex(op, i, nLayers, len) ==
    CASE op = "goToFront" -> len - 1
      [] op = "goToBack" -> 0
      [] op = "goForwardLayers" -> Min(i + nLayers, len - 1)
      [] op = "goBackwardLayers" -> Max(i - nLayers, 0)

\* ord with only id moved, to index k
MovedTo(ord, id, k) ==
    LET others == SelectSeq(ord, LAMBDA x : x # id)
    IN  SubSeq(others, 1, k) \o <<id>> \o SubSeq(others, k + 1, Len(others))

\* C32: a layering operation on a target at index i of the order of length
\* L yields the same order with only that target moved: goToFront to index
\* L-1, goToBack to 0, goForwardLayers(n) to min(i+n, L-1),
\* goBackwardLayers(n) to max(i-n, 0), for every integer n, negative ones
\* too; the other ids keep their order and every id occurs once.  An
\* index outside the order is read as the nearest one inside it (the
\* reinsertion is at the clamped index).
C32_LayeringMovesOnlyTheTarget ==
    [][(last'.op \in LayerOps /\ last'.target \in Members(order)) =>
           LET i == indexOf(order, last'.target)
               k == clamp(LayerIndex(last'.op, i, last'.blk.a, Len(order)),
                          0, Len(order) - 1)
           IN  order' = MovedTo(order, last'.target, k)]_vars

\* C33: a layering operation on a target whose id is not in the order
\* leaves the order and every target's state as they are.
C33_LayeringOfUnknownTargetChangesNothing ==
    [][(last'.op \in LayerOps /\ last'.target \notin Members(order)) =>
           /\ order' = order
           /\ UNCHANGED <<vtargets, atargets, videoPlaying, audioPlaying,
                          playing, playingFlag, redrawRequested>>]_vars

\* C33 happens: a target that is not in an order of three has been sent to
\* the front
C33_Witness ==
    /\ last.op = "goToFront"
    /\ last.target \notin Members(order)
    /\ Len(order) = 3

FramesToSet == -2..7

\* C35: frame numbers round-trip between the scripts' view, from 1, and the
\* target's, from 0: setCurrentFrame(x) followed by getCurrentFrame gives
\* clamp(x, 0, frames-1) - trimStart + 1; goToFrame(1) sets currentFrame to
\* trimStart; and goToFrame(f) followed by getCurrentFrame gives f whenever
\* f + trimStart - 1 is in [0, frames-1].
C35_FrameNumbersRoundTrip ==
    [][\A t \in 1..Len(thr) :
           (Stepping(t) /\ peekStack(thr[t]).op = "goToFrame") =>
               LET v == thr[t].target
                   f == peekStack(thr[t]).a
                   trimStart == VideoInfo[v].trimStart
                   frames == VideoInfo[v].frames
                   after == [World EXCEPT !.vt = vtargets']
               IN  /\ \A x \in FramesToSet :
                          getCurrentFrame(setCurrentFrame(World, v, x), v)
                              = (clamp(x, 0, frames - 1) - trimStart) + 1
                   /\ f = 1 => vtargets'[v].currentFrame = trimStart
                   /\ (f + trimStart) - 1 \in 0..(frames - 1) =>
                          getCurrentFrame(after, v) = f]_vars

\* C35 happens: the script went to frame 2 of the trimmed video, which is
\* the target's frame 2, not the first of the file and not the last
C35_Witness ==
    /\ last.op = "exec" /\ last.blk = Blk("goToFrame", 2, 0)
    /\ VideoInfo[last.target].trimStart = 1
    /\ vtargets[last.target].currentFrame = 2
    /\ getCurrentFrame(World, last.target) = 2

\* the window of a cardinal direction: 10 degrees either side of north, 20
\* either side of east, south and west
InWindow(heading, direction) ==
    CASE direction = NORTH -> heading <= 10 \/ heading >= 350
      [] direction = EAST -> heading \in 70..110
      [] direction = SOUTH -> heading \in 160..200
      [] direction = WEST -> heading \in 250..290

C37_LegacyStopAllStopsEveryVideo ==
    [][last'.op = "legacy_PROJECT_STOP_ALL" =>
           /\ playing' = <<>>
           /\ \A v \in DOMAIN playingFlag' : ~playingFlag'[v]]_vars

\* the plays this step takes out of audioState.playing
Removed == {e \in audioPlaying : AudioEntries(audioPlaying', e.id) = {}}

\* the slots this step returns to audio target a
SlotsReturned(a) ==
    atargets'[a].nonblockingSoundsAvailable
        - atargets[a].nonblockingSoundsAvailable

\* the advancement leaves in the queue every play whose playhead was not at
\* its end when the pass began, the ones that reach it in this pass
\* included
ReachingEndStays ==
    Advancing => \A e \in audioPlaying : e.playhead # e.end => e \notin Removed

\* C38: an audio play is never removed in the advancement pass in which
\* its playhead reaches its end, it stays until the next tick's pass; so
\* every queued play, one with start = end too, is removed only by the
\* advancement pass of a tick, and the slot of a finished non-blocking
\* sound is returned one tick after its playhead reached the end.
C38_PlaysLeaveOnlyInALaterPass ==
    [][/\ ReachingEndStays
       /\ Removed # {} => Advancing
       /\ \A a \in AudioIds :
              SlotsReturned(a) > 0 =>
                  /\ Advancing
                  /\ SlotsReturned(a) =
                         Cardinality({e \in Removed :
                             /\ ~e.blocking /\ e.audioTargetId = a
                             /\ e.id \notin born})]_vars

\* C38 as the code has it: a play whose playhead reaches its end in an
\* advancement pass stays until the next tick's pass; a play queued with
\* its playhead at its end (start = end) is removed by the pass of the tick
\* that queued it; but for PROJECT_STOP_ALL, which empties the queue and
\* resets the counters, plays are removed only by an advancement pass, and
\* the slot of a finished non-blocking sound is returned by the pass that
\* removes it.
C38_PlaysLeaveInALaterPassOrByStopAll ==
    [][/\ ReachingEndStays
       /\ Removed # {} => Advancing \/ last'.op = "stopAll"
       /\ Advancing =>
              \A e \in Removed : e.id \in born => e.playhead = e.start
       /\ \A a \in AudioIds :
              SlotsReturned(a) > 0 =>
                  \/ last'.op = "stopAll"
                  \/ /\ Advancing
                     /\ SlotsReturned(a) =
                            Cardinality({e \in Removed :
                                ~e.blocking /\ e.audioTargetId = a})]_vars

\* C38 happens: in the second tick nothing was queued, and its pass has
\* removed a non-blocking sound that reached its end in the first and has
\* returned its slot
C38_Witness ==
    /\ pc = "idle" /\ ticks = 2
    /\ last.op = "tick" /\ last.avail = 1 /\ last.nplays = 1
    /\ born = {}
    /\ audioPlaying = {}
    /\ atargets["a1"].nonblockingSoundsAvailable =
           MAX_SIMULTANEOUS_NONBLOCKING_SOUNDS

\* the opcodes of the blocking primitives, video and audio
BlockingOps == BlockingVideoOps \cup {"playSound", "playSoundFromAToB"}

\* thread t is alive and inside a blocking primitive: it has started a play
WaitsForPlay(t) ==
    /\ Len(thr[t].stack) > 0
    /\ peekStack(thr[t]).op \in BlockingOps
    /\ peekStackFrame(thr[t]).playingId # 0

\* C39: after PROJECT_STOP_ALL every thread that is still alive and was
\* blocked in a blocking video or audio primitive is released: the
\* broadcast leaves no play with the playingId it stored, none appears
\* later, and on its next entry the primitive returns without setting
\* YIELD_TICK and inserts no new play; the thread moves past the block.
C39_StopAllReleasesBlockedThreads ==
    [][\A t \in 1..Len(thr) :
           /\ (last'.op = "stopAll" /\ WaitsForPlay(t)) =>
                  /\ thr'[t] = thr[t]
                  /\ VideoEntries(videoPlaying', thr[t].target) = {}
                  /\ AudioEntries(audioPlaying',
                                  peekStackFrame(thr[t]).playingId) = {}
           /\ (stops >= 1 /\ WaitsForPlay(t) /\ Stale(t)) =>
                  IF Stepping(t)
                  THEN /\ thr'[t].status # STATUS_YIELD_TICK
                       /\ thr'[t].stack # thr[t].stack
                       /\ videoPlaying' = videoPlaying
                       /\ audioPlaying' = audioPlaying
                       /\ uidNext' = uidNext
                  ELSE /\ thr'[t].stack = thr[t].stack
                       /\ \A e \in videoPlaying' \cup audioPlaying' :
                              e.id # peekStackFrame(thr[t]).playingId]_vars

\* C39 happens: a thread that waited for its sound when the host stopped
\* the project has entered playSoundFromAToB again in the second tick,
\* found no play and moved on; the sound would not have ended by itself yet
C39_Witness ==
    /\ stops = 1 /\ ticks = 2
    /\ last.op = "exec" /\ last.blk.op = "playSoundFromAToB"
    /\ last.id # 0 /\ ~last.present /\ last.advanced
    /\ audioPlaying = {}
    /\ thr[last.t].status # STATUS_YIELD_TICK

====
